---------------------------- MODULE Spec2Model ----------------------------
(***************************************************************************)
(* Model of amazon_asin_tracker.py: the catalog gateway (call_pa_api,      *)
(* get_product_info_batch), the snapshot store (load_previous_results,     *)
(* save_results, create_stock_history), the change detector                *)
(* (calculate_discount and the classification part of main) and the        *)
(* detection run of main.                                                  *)
(*                                                                         *)
(* Encoding conventions                                                    *)
(*   - a Python value that may be None is a sequence: <<>> is None and     *)
(*     <<v>> is the value v;                                               *)
(*   - a Python dict that is iterated (product_info, batch results) is a   *)
(*     sequence of records in insertion order with distinct keys;          *)
(*   - a text that the code searches for marker phrases is a sequence of   *)
(*     phrases, "x in text" being "x is one of the phrases";               *)
(*   - discount_percent is the exact fraction [num, den] = num / den, the  *)
(*     float rounding of (amount / original) * 100 is not modelled;        *)
(*   - the timestamp field of a record is not modelled.                    *)
(***************************************************************************)
EXTENDS Integers, Sequences, FiniteSets, TLC

(***************************************************************************)
(* Program constants.                                                      *)
(***************************************************************************)
MIN_DISCOUNT_PERCENT == 15
API_WAIT_TIME == 3
MAX_RETRIES == 3
POST_LIMIT == 5
DEBUG_MODE == FALSE

(***************************************************************************)
(* Bounds of the model.  MAX_BATCH_SIZE is 10 and MAX_RESULTS_STORED is    *)
(* 500 in the source; the model keeps the names and scales the values so   *)
(* that several chunks and a truncated snapshot occur with few ids.        *)
(***************************************************************************)
MAX_BATCH_SIZE == 1
MAX_RESULTS_STORED == 1
MaxRuns == 2

None == <<>>
Some(v) == <<v>>

Ids == {"a", "b"}

Min(x, y) == IF x <= y THEN x ELSE y

Range(s) == {s[k] : k \in 1..Len(s)}

RECURSIVE Pow2(_)
Pow2(n) == IF n = 0 THEN 1 ELSE 2 * Pow2(n - 1)

RECURSIVE Sum(_)
Sum(s) == IF s = <<>> THEN 0 ELSE Head(s) + Sum(Tail(s))

(***************************************************************************)
(* Module level: credentials (lines 38-55).                                *)
(***************************************************************************)
pa_api_ready_of(e) == e.PA_API_KEY /\ e.PA_API_SECRET /\ e.PARTNER_TAG

\* ExitsAtImport without the exit of line 55
ExitsAtImport_Never(e) == FALSE

\* lines 52-55: the process exits when the credentials are incomplete,
\* unless DEBUG_MODE (line 15) is set
ExitsAtImport(e) == ~pa_api_ready_of(e) /\ ~DEBUG_MODE

(***************************************************************************)
(* call_pa_api (lines 192-261): one iteration of the retry loop.           *)
(* The kinds of answer to one request:                                     *)
(*   "429"        status 429                                               *)
(*   "non200"     another status than 200                                  *)
(*   "errors"     status 200, a body with an Errors envelope               *)
(*   "transport"  requests.exceptions.RequestException                     *)
(*   "malformed"  status 200, a body that is no JSON                       *)
(*   "ok"         status 200, a JSON body without Errors                   *)
(***************************************************************************)
RespKinds == {"429", "non200", "errors", "transport", "malformed", "ok"}

\* BackoffWait growing by the base wait time instead of doubling
BackoffWait_Linear(attempt) == API_WAIT_TIME * (attempt + 1)

\* line 209: the wait after a 429 on attempt k (k from 0)
BackoffWait(attempt) == API_WAIT_TIME * Pow2(attempt)

\* lines 256-259: the finally clause of one iteration
FinallyWait(attempt) ==
    IF attempt < MAX_RETRIES - 1 THEN <<API_WAIT_TIME>> ELSE <<>>

\* One iteration of the loop of lines 201-259 on attempt `attempt` that
\* receives `kind`: what the loop does next ("retry": the next iteration,
\* or the fall through to line 261 when there is none; "none": return None;
\* "data": return data) and the sleeps it makes, in order.
AttemptStep(attempt, kind) ==
    IF kind = "429"
    THEN [next |-> "retry",
          sleeps |-> <<BackoffWait(attempt)>> \o FinallyWait(attempt)]
    ELSE IF kind = "ok"
    THEN [next |-> "data", sleeps |-> FinallyWait(attempt)]
    ELSE IF attempt < MAX_RETRIES - 1
    THEN [next |-> "retry",
          sleeps |-> <<API_WAIT_TIME>> \o FinallyWait(attempt)]
    ELSE [next |-> "none", sleeps |-> FinallyWait(attempt)]

\* LoopExhausted with one attempt too many
LoopExhausted_OffByOne(attempt) == attempt > MAX_RETRIES

\* line 201 and line 261: the loop ends without data after the last attempt
LoopExhausted(attempt) == attempt >= MAX_RETRIES


(***************************************************************************)
(* get_product_info_batch (lines 263-374): normalization of one response.  *)
(* A raw item is the part of an Items entry the code reads, the nesting    *)
(* flattened to the innermost field:                                       *)
(*   ASIN          None or the id                                          *)
(*   Title         None or ItemInfo.Title.DisplayValue                     *)
(*   Price         Offers.Listings[0].Price.Amount: [kind, val] with kind  *)
(*                 "absent", "number" or "illtyped" (a value float()       *)
(*                 rejects)                                                *)
(*   SavingBasis   Offers.Listings[0].SavingBasis.Amount, likewise         *)
(*   Availability  None or Offers.Listings[0].Availability.Message         *)
(*   Merchant      None or Offers.Listings[0].MerchantInfo.Name            *)
(*   ImageLarge    "absent", "nourl" (Images.Primary.Large without URL)    *)
(*                 or "url"                                                *)
(***************************************************************************)
Absent == [kind |-> "absent", val |-> 0]
IllTyped == [kind |-> "illtyped", val |-> 0]
Num(n) == [kind |-> "number", val |-> n]

\* the sentinel of lines 308, 327 and 337
UNKNOWN == "unknown"

\* line 334: the phrases that mean in stock
IN_STOCK_MARKERS == {"zaiko_ari", "tsujo_haiso_muryo", "otodoke_yotei"}

\* line 343: the first-party seller names
AMAZON_NAMES == {"Amazon", "Amazon.co.jp"}

Contains(text, markers) == \E k \in 1..Len(text) : text[k] \in markers

\* lines 313-324: float(listing[...]["Amount"]) when the field is there
AmountOf(a) == IF a.kind = "number" THEN Some(a.val) ELSE None

\* lines 317, 324 and 348: the statements of the normalization that raise
\* on a field float() rejects and on a Large image without URL
ItemRaises(item) ==
    \/ item.Price.kind = "illtyped"
    \/ item.SavingBasis.kind = "illtyped"
    \/ item.ImageLarge = "nourl"

\* lines 307-372: the record of one item that has an ASIN and does not raise
NormalizeItem(item) ==
    [asin |-> item.ASIN[1],
     title |-> IF item.Title = None THEN UNKNOWN ELSE item.Title[1],
     current_price |-> AmountOf(item.Price),
     original_price |-> AmountOf(item.SavingBasis),
     image_url |-> IF item.ImageLarge = "url" THEN Some("img") ELSE None,
     availability |-> IF item.Availability = None THEN <<UNKNOWN>>
                      ELSE item.Availability[1],
     is_in_stock |-> IF item.Availability = None THEN FALSE
                     ELSE Contains(item.Availability[1], IN_STOCK_MARKERS),
     seller |-> IF item.Merchant = None THEN UNKNOWN ELSE item.Merchant[1],
     is_amazon |-> IF item.Merchant = None THEN FALSE
                   ELSE item.Merchant[1] \in AMAZON_NAMES,
     discount_amount |-> None,
     discount_percent |-> None,
     posted |-> None]

\* d[key] = rec of an insertion-ordered dict: a present key keeps its place
DictSet(d, rec) ==
    IF \E k \in 1..Len(d) : d[k].asin = rec.asin
    THEN [k \in 1..Len(d) |-> IF d[k].asin = rec.asin THEN rec ELSE d[k]]
    ELSE Append(d, rec)

\* dict.update (line 928)
RECURSIVE DictUpdate(_, _)
DictUpdate(d, more) ==
    IF more = <<>> THEN d
    ELSE DictUpdate(DictSet(d, Head(more)), Tail(more))

Keys(d) == {d[k].asin : k \in 1..Len(d)}

\* lines 302-374: the loop over the items; raised is TRUE when a statement
\* of the loop raises, and the exception leaves get_product_info_batch
RECURSIVE NormalizeItems(_, _)
NormalizeItems(items, result) ==
    IF items = <<>> THEN [raised |-> FALSE, result |-> result]
    ELSE IF Head(items).ASIN = None
    THEN NormalizeItems(Tail(items), result)
    ELSE IF ItemRaises(Head(items))
    THEN [raised |-> TRUE, result |-> <<>>]
    ELSE NormalizeItems(Tail(items),
                        DictSet(result, NormalizeItem(Head(items))))

\* lines 290-374: what get_product_info_batch makes of the data call_pa_api
\* returned; a body is [has_items, items], has_items FALSE for a body
\* that is empty or lacks ItemsResult.Items
BatchOfBody(body) ==
    IF ~body.has_items THEN [raised |-> FALSE, result |-> <<>>]
    ELSE NormalizeItems(body.items, <<>>)

(***************************************************************************)
(* calculate_discount (lines 472-495).  It adds the discount fields to the *)
(* records of product_info in place and returns the records it changed.    *)
(***************************************************************************)
\* HasDiscount with < for <= at line 481
HasDiscount_Lax(p) ==
    ~(p.current_price = None \/ p.original_price = None
      \/ p.original_price[1] < p.current_price[1])

HasDiscount(p) ==
    ~(p.current_price = None \/ p.original_price = None
      \/ p.original_price[1] <= p.current_price[1])

WithDiscount(p) ==
    IF HasDiscount(p)
    THEN [p EXCEPT
            !.discount_amount = Some(p.original_price[1] - p.current_price[1]),
            !.discount_percent =
                Some([num |-> (p.original_price[1] - p.current_price[1]) * 100,
                      den |-> p.original_price[1]])]
    ELSE p

\* product_info after the call (the dicts are changed in place)
calculate_discount_info(product_info) ==
    [k \in 1..Len(product_info) |-> WithDiscount(product_info[k])]

\* the returned list: the changed records, in iteration order
calculate_discount(product_info) ==
    SelectSeq(calculate_discount_info(product_info), HasDiscount)

\* x >= t for the fraction x
PercentGeq(x, t) == x.num >= t * x.den

\* x > y for the fractions x and y
PercentGt(x, y) == x.num * y.den > y.num * x.den

(***************************************************************************)
(* Snapshot store.  The results file is [kind, data]: kind is "missing",   *)
(* "empty", "malformed" (no JSON, for instance a truncated write) or "ok"  *)
(* (the JSON list data).                                                   *)
(***************************************************************************)
FileOk(data) == [kind |-> "ok", data |-> data]
FileOf(kind) == [kind |-> kind, data |-> <<>>]

\* load_previous_results (lines 431-454): the list it returns
load_previous_results(file) == IF file.kind = "ok" THEN file.data ELSE <<>>

\* FileAfterLoad without the writes of lines 436-437 and 449-450
FileAfterLoad_NoInit(file) == file

\* load_previous_results: the file it leaves (lines 436-437, 449-450)
FileAfterLoad(file) ==
    IF file.kind \in {"missing", "malformed"} THEN FileOk(<<>>) ELSE file

\* Truncate without the slice of line 421
Truncate_All(all_products) == all_products

\* line 421: all_products[:MAX_RESULTS_STORED]
Truncate(all_products) ==
    SubSeq(all_products, 1, Min(Len(all_products), MAX_RESULTS_STORED))

\* save_results (lines 417-429).  outcome is "ok", "open_failed" (open
\* raises, the file is as before) or "dump_failed" (the write raises after
\* open has truncated the file, which is left without valid JSON).
\* Returns [ok, file].
save_results(all_products, file, outcome) ==
    IF outcome = "ok"
    THEN [ok |-> TRUE, file |-> FileOk(Truncate(all_products))]
    ELSE IF outcome = "open_failed" THEN [ok |-> FALSE, file |-> file]
    ELSE [ok |-> FALSE, file |-> FileOf("malformed")]

SaveOutcomes == {"ok", "open_failed", "dump_failed"}

\* create_stock_history (lines 456-470), on the list the load returned:
\* a later item with the same asin replaces an earlier one
create_stock_history(previous) ==
    [id \in Keys(previous) |->
        LET k == CHOOSE k \in 1..Len(previous) :
                    /\ previous[k].asin = id
                    /\ \A m \in (k + 1)..Len(previous) : previous[m].asin # id
        IN [is_in_stock |-> previous[k].is_in_stock,
            availability |-> previous[k].availability,
            price |-> previous[k].current_price]]

(***************************************************************************)
(* main, the detection pass (lines 883-1041): its pure parts.              *)
(***************************************************************************)
\* lines 887-892
min_discount_of(args, config) ==
    IF args.min_discount # None /\ args.min_discount[1] # 0
    THEN args.min_discount[1]
    ELSE IF config.min_discount_percent # None
    THEN config.min_discount_percent[1]
    ELSE MIN_DISCOUNT_PERCENT

\* lines 936 and 961
amazon_only_of(args, config) == args.amazon_only \/ config.amazon_only

\* line 923: tracking_asins[i:i+MAX_BATCH_SIZE], i counted from 0
BatchAt(tracking, i) ==
    SubSeq(tracking, i + 1, Min(Len(tracking), i + MAX_BATCH_SIZE))

\* IsRestock that also emits an id without a previous entry (line 948)
IsRestock_ColdStart(product, stock_history, amazon_only) ==
    /\ ~(amazon_only /\ ~product.is_amazon)
    /\ product.is_in_stock
    /\ \/ product.asin \notin DOMAIN stock_history
       \/ ~stock_history[product.asin].is_in_stock

\* IsRestock that does not look at the previous stock state
IsRestock_EveryRun(product, stock_history, amazon_only) ==
    /\ ~(amazon_only /\ ~product.is_amazon)
    /\ product.asin \in DOMAIN stock_history
    /\ product.is_in_stock

\* lines 937-947: whether one record is emitted as restocked
IsRestock(product, stock_history, amazon_only) ==
    /\ ~(amazon_only /\ ~product.is_amazon)
    /\ product.asin \in DOMAIN stock_history
    /\ ~stock_history[product.asin].is_in_stock
    /\ product.is_in_stock

\* lines 931-951
newly_in_stock_of(info, stock_history, args, config) ==
    IF args.discount_only THEN <<>>
    ELSE LET Test(p) == IsRestock(p, stock_history, amazon_only_of(args, config))
         IN SelectSeq(info, Test)

\* lines 960-962: the seller filter of the discount part
SellerFiltered(items, amazon_only) ==
    LET Test(p) == p.is_amazon
    IN IF amazon_only THEN SelectSeq(items, Test) ELSE items

\* filtered_items_of with > for >= at line 966
filtered_items_of_Strict(items, min_discount) ==
    LET Test(p) == p.discount_percent[1].num
                      > min_discount * p.discount_percent[1].den
    IN SelectSeq(items, Test)

\* line 966
filtered_items_of(items, min_discount) ==
    LET Test(p) == PercentGeq(p.discount_percent[1], min_discount)
    IN SelectSeq(items, Test)

\* NotPosted without the exclusion of line 969
NotPosted_KeepsAll(items, previous_asins) == items

\* NotPosted that keeps the ids of the previous snapshot and no other
NotPosted_OnlyPosted(items, previous_asins) ==
    LET Test(p) == p.asin \in previous_asins
    IN SelectSeq(items, Test)

\* line 969
NotPosted(items, previous_asins) ==
    LET Test(p) == p.asin \notin previous_asins
    IN SelectSeq(items, Test)

\* InsertDesc that puts an item before those that are equal to it
RECURSIVE InsertDesc_Unstable(_, _)
InsertDesc_Unstable(sorted, p) ==
    IF sorted = <<>> THEN <<p>>
    ELSE IF ~PercentGt(Head(sorted).discount_percent[1], p.discount_percent[1])
    THEN <<p>> \o sorted
    ELSE <<Head(sorted)>> \o InsertDesc_Unstable(Tail(sorted), p)

\* line 972: list.sort(key = discount_percent, reverse = True), a stable
\* sort: an insertion sort that puts an item after those not smaller
RECURSIVE InsertDesc(_, _)
InsertDesc(sorted, p) ==
    IF sorted = <<>> THEN <<p>>
    ELSE IF PercentGt(p.discount_percent[1], Head(sorted).discount_percent[1])
    THEN <<p>> \o sorted
    ELSE <<Head(sorted)>> \o InsertDesc(Tail(sorted), p)

RECURSIVE SortDesc(_)
SortDesc(items) ==
    IF items = <<>> THEN <<>>
    ELSE InsertDesc(SortDesc(SubSeq(items, 1, Len(items) - 1)),
                    items[Len(items)])

\* lines 954-972, on product_info after calculate_discount
new_discounted_items_of(info, previous_asins, min_discount, args, config) ==
    IF args.stock_only THEN <<>>
    ELSE SortDesc(NotPosted(
            filtered_items_of(
                SellerFiltered(SelectSeq(info, HasDiscount),
                               amazon_only_of(args, config)),
                min_discount),
            previous_asins))

\* lines 981-982
WithPosted(info, previous_asins) ==
    [k \in 1..Len(info) |->
        [info[k] EXCEPT !.posted = Some(info[k].asin \in previous_asins)]]

\* CarriedOver that keeps every previous record
CarriedOver_All(info, previous_results) == previous_results

\* lines 984-987: the previous records that were not fetched
CarriedOver(info, previous_results) ==
    LET Test(old) == old.asin \notin Keys(info)
    IN SelectSeq(previous_results, Test)

\* lines 977-987
all_products_of(info, previous_results) ==
    info \o CarriedOver(info, previous_results)

(***************************************************************************)
(* Tracking config.  The config file is [kind, data] as the results file   *)
(* is: "missing", "empty", "malformed" (no JSON) or "ok" (the JSON object  *)
(* data, with the three keys of default_list).                             *)
(***************************************************************************)
ConfigOk(data) == [kind |-> "ok", data |-> data]
ConfigOf(kind) ==
    [kind |-> kind,
     data |-> [min_discount_percent |-> None, amazon_only |-> FALSE,
               tracking_asins |-> <<>>]]

\* lines 379-383
default_list ==
    [min_discount_percent |-> Some(MIN_DISCOUNT_PERCENT),
     amazon_only |-> FALSE,
     tracking_asins |-> <<>>]

\* lines 390-396
SAMPLE_ASINS ==
    <<"B0CC944LHR", "B0C65KM3ZT", "B08JKFH23G", "B002VPUOOE", "B004Y9IXZW">>

\* load_asin_list (lines 376-415): the config it returns
load_asin_list(file) ==
    IF file.kind = "missing"
    THEN [default_list EXCEPT !.tracking_asins = SAMPLE_ASINS]
    ELSE IF file.kind = "ok" THEN file.data
    ELSE default_list

\* load_asin_list: the file it leaves (lines 399-400, 413-414)
ConfigAfterLoad(file) ==
    IF file.kind = "ok" THEN file ELSE ConfigOk(load_asin_list(file))

(***************************************************************************)
(* main, the addition of ids (lines 845-881).  The value of --add is given *)
(* as the fields between its commas, the file of --add-file as [exists,    *)
(* lines]; a field or line is an id with or without blanks around it, a    *)
(* blank text, or a comment.                                               *)
(***************************************************************************)
\* str.strip() of a field or line
Strip(text) ==
    IF text = " a " THEN "a"
    ELSE IF text = " " THEN ""
    ELSE text

\* line.startswith('#')
IsComment(text) == text = "# c"

\* lines 846: args.add or args.add_file (an empty text is false)
IsAdd(a) ==
    \/ a.add # None /\ a.add[1] # <<"">>
    \/ a.add_file # None

\* lines 98-114: the ids load_asin_list_from_file returns
RECURSIVE FileAsins(_)
FileAsins(lines) ==
    IF lines = <<>> THEN <<>>
    ELSE LET line == Strip(Head(lines))
         IN (IF line # "" /\ ~IsComment(line) THEN <<line>> ELSE <<>>)
            \o FileAsins(Tail(lines))

load_asin_list_from_file(file) ==
    IF file.exists THEN FileAsins(file.lines) ELSE <<>>

\* lines 853-864: the fields of --add, stripped, the empty ones skipped
RECURSIVE AddAsins(_)
AddAsins(fields) ==
    IF fields = <<>> THEN <<>>
    ELSE (IF Strip(Head(fields)) # "" THEN <<Strip(Head(fields))>> ELSE <<>>)
         \o AddAsins(Tail(fields))

\* AppendNew that appends every id it is given
AppendNew_All(tracking, asins) == tracking \o asins

\* the loops of lines 855-864 and 869-875: each id that is not in the list
\* is appended to it
RECURSIVE AppendNew(_, _)
AppendNew(tracking, asins) ==
    IF asins = <<>> THEN tracking
    ELSE AppendNew(IF Head(asins) \in Range(tracking) THEN tracking
                   ELSE Append(tracking, Head(asins)),
                   Tail(asins))

\* lines 851-875: tracking_asins after the two loops
TrackingAfterAdd(tracking, a) ==
    LET inline == IF a.add # None /\ a.add[1] # <<"">>
                  THEN AppendNew(tracking, AddAsins(a.add[1])) ELSE tracking
    IN IF a.add_file # None
       THEN AppendNew(inline, load_asin_list_from_file(a.add_file[1]))
       ELSE inline

(***************************************************************************)
(* Inputs of the model.                                                    *)
(***************************************************************************)
\* the environment: which credentials are set
Envs == [PA_API_KEY : BOOLEAN, PA_API_SECRET : BOOLEAN, PARTNER_TAG : BOOLEAN]

\* the tracking config file (valid JSON): every list of at most MaxTracked
\* ids, duplicates included, that is empty or starts with "a" (the ids are
\* interchangeable), with and without a threshold of its own
MaxTracked == 2

RECURSIVE SeqsUpTo(_, _)
SeqsUpTo(S, n) ==
    IF n = 0 THEN {<<>>}
    ELSE LET shorter == SeqsUpTo(S, n - 1)
         IN shorter \cup {Append(q, x) : q \in shorter, x \in S}

Configs ==
    [min_discount_percent : {None, Some(50)},
     amazon_only : {FALSE},
     tracking_asins : {q \in SeqsUpTo(Ids, MaxTracked) :
                          q = <<>> \/ q[1] = "a"}]

\* the command line of a detection run
ArgSet ==
    [dry_run : {FALSE},
     min_discount : {None},
     stock_only : BOOLEAN,
     discount_only : BOOLEAN,
     amazon_only : BOOLEAN,
     no_twitter : {FALSE},
     no_threads : {FALSE},
     add : {None},
     add_file : {None}]

\* the fields of --add and the lines of the file of --add-file
AddTexts == {"a", " a ", "c", "", " "}
LineTexts == {"a", "c", "# c", " "}

\* the longest --add (in fields) and file (in lines)
MaxAdded == 2

\* the command lines that add ids
AddArgSet ==
    [dry_run : {FALSE},
     min_discount : {None},
     stock_only : {FALSE},
     discount_only : {FALSE},
     amazon_only : {FALSE},
     no_twitter : {FALSE},
     no_threads : {FALSE},
     add : {None} \cup {Some(q) : q \in SeqsUpTo(AddTexts, MaxAdded) \ {<<>>}},
     add_file : {None, Some([exists |-> FALSE, lines |-> <<>>])}
                \cup {Some([exists |-> TRUE, lines |-> q]) :
                         q \in SeqsUpTo(LineTexts, MaxAdded)}]

\* the command lines of a detection run with and without --min-discount
ThresholdArgSet ==
    [dry_run : {FALSE},
     min_discount : {None, Some(0), Some(30)},
     stock_only : {FALSE},
     discount_only : {FALSE},
     amazon_only : {FALSE},
     no_twitter : {FALSE},
     no_threads : {FALSE},
     add : {None},
     add_file : {None}]

\* the config file in every condition
ConfigFiles ==
    {ConfigOf("missing"), ConfigOf("empty"), ConfigOf("malformed")}
    \cup {ConfigOk(c) : c \in Configs}

\* what the catalog may say of one id: in stock with a price below the
\* saving basis by 50% and by 15% from either seller, in stock without a
\* saving basis and with one equal to the price, and out of stock
RawShape(price, basis, avail, merchant) ==
    [ASIN |-> None, Title |-> Some("title"), Price |-> price,
     SavingBasis |-> basis, Availability |-> Some(avail),
     Merchant |-> Some(merchant), ImageLarge |-> "absent"]

SELLERS == {"Amazon.co.jp", "Other"}

Shapes ==
    {RawShape(Num(p), Num(100), <<"zaiko_ari">>, me) :
        p \in {50, 85}, me \in SELLERS}
    \cup {RawShape(Num(50), Absent, <<"zaiko_ari">>, "Amazon.co.jp"),
          RawShape(Num(100), Num(100), <<"zaiko_ari">>, "Amazon.co.jp")}
    \cup {RawShape(Num(50), Num(100), <<"zaiko_gire">>, me) : me \in SELLERS}

\* items the normalization cannot digest
BadShapes ==
    {[ASIN |-> None, Title |-> None, Price |-> IllTyped,
      SavingBasis |-> Absent, Availability |-> None, Merchant |-> None,
      ImageLarge |-> "absent"],
     [ASIN |-> None, Title |-> None, Price |-> Absent,
      SavingBasis |-> Absent, Availability |-> None, Merchant |-> None,
      ImageLarge |-> "nourl"]}

\* the ids of a batch, each once, in order
RECURSIVE Distinct(_)
Distinct(q) ==
    IF q = <<>> THEN <<>>
    ELSE LET init == Distinct(SubSeq(q, 1, Len(q) - 1))
         IN IF q[Len(q)] \in Range(init) THEN init
            ELSE Append(init, q[Len(q)])

\* the Items of a 200 response to a request for ids: for each id, in
\* order, nothing or one item
RECURSIVE ItemLists(_, _)
ItemLists(ids, shapes) ==
    IF ids = <<>> THEN {<<>>}
    ELSE LET rest == ItemLists(Tail(ids), shapes)
         IN rest \cup {<<[sh EXCEPT !.ASIN = Some(Head(ids))]>> \o r :
                            sh \in shapes, r \in rest}

NoItemsBody == [has_items |-> FALSE, items |-> <<>>]

Bodies(batch, shapes) ==
    {NoItemsBody} \cup
    {[has_items |-> TRUE, items |-> its] :
        its \in ItemLists(Distinct(batch), shapes)}

(***************************************************************************)
(* State.                                                                  *)
(***************************************************************************)
VARIABLES
    env,                  \* the credentials of the environment
    configFile,           \* tracking_asins.json
    resultsFile,          \* asin_results.json
    pc,                   \* where the process is
    runs,                 \* processes started so far
    netUsed,              \* this process sent a request to the catalog API
    configIO,             \* this process read or wrote the config file
    resultsIO,            \* this process read or wrote the results file
    args,                 \* main: the parsed command line
    config,               \* main: the loaded config
    min_discount,         \* main: line 888
    previous_results,     \* main: line 905
    previous_asins,       \* main: line 906
    stock_history,        \* main: line 909
    i,                    \* main: the chunk loop of line 922
    attempt,              \* call_pa_api: the loop of line 201
    product_info,         \* main: line 921
    newly_in_stock,       \* main: line 931
    new_discounted_items, \* main: line 954
    save_ok,              \* what save_results returned (None: not called)
    dispatched,           \* the items the loops of lines 1004, 1025 post
    batchRaised,          \* get_product_info_batch raised in this run
    failed_ids,           \* the ids of the chunks call_pa_api gave up on
    discountedBefore,     \* the ids earlier runs put in the discount stream
    fileAtStart,          \* asin_results.json as this process found it
    configAtStart,        \* tracking_asins.json as this process found it
    savedIds,             \* the ids of the snapshots earlier processes left
    restockedSince,       \* the ids earlier runs put in the restock stream
                          \* and no run since fetched as not in stock
    saveCalls,            \* the calls of save_results by this process
    twitter_ready,        \* line 64
    threads_ready,        \* line 79
    twitter_client,       \* main: line 912
    calls,                \* the calls of the posting functions so far
    twitter_result,       \* main: lines 1009 and 1030
    threads_result,       \* main: lines 1014 and 1035
    pubFn,                \* publisher alone: "twitter" or "threads"
    pubCompose,           \* publisher alone: composing the text is "ok"
                          \* or "raises"
    pubToken,             \* publisher alone: what get_threads_access_token
                          \* has to do
    pubAttempt,           \* publisher alone: the attempt of lines 585, 722
    pubLog,               \* publisher alone: requests and sleeps so far
    pubResult,            \* publisher alone: "start", "running", or what
                          \* the function returned
    composeType,          \* composition alone: the notification_type
    composeProduct,       \* composition alone: the record, each text of
                          \* it given by its length
    post,                 \* composition alone: None, or the text composed
    urlAsin,              \* detail link alone: the asin of the item
    urlItem,              \* detail link alone: the item of the response
    detail_url,           \* detail link alone: None, or the link made
    gwAttempt,            \* gateway alone: the attempt of line 201
    gwLog,                \* gateway alone: requests and sleeps so far
    gwResult,             \* gateway alone: call_pa_api is "running" or
                          \* has returned "data" or "none"
    gwBatch               \* gateway alone: None, or what
                          \* get_product_info_batch did: [raised, result]

procVars == <<netUsed, configIO, resultsIO>>
mainVars == <<args, config, min_discount, previous_results, previous_asins,
              stock_history, i, attempt, product_info, newly_in_stock,
              new_discounted_items, save_ok, dispatched, batchRaised,
              failed_ids>>
gwVars == <<gwAttempt, gwLog, gwResult, gwBatch>>
postVars == <<twitter_ready, threads_ready, twitter_client, calls,
              twitter_result, threads_result>>
publishVars == <<pubFn, pubCompose, pubToken, pubAttempt, pubLog, pubResult>>
composeVars == <<composeType, composeProduct, post>>
urlVars == <<urlAsin, urlItem, detail_url>>
socialVars == <<postVars, publishVars, composeVars, urlVars>>
histVars == <<configAtStart, savedIds, restockedSince>>
vars == <<env, configFile, resultsFile, pc, runs, procVars, mainVars,
          discountedBefore, fileAtStart, saveCalls, gwVars, socialVars,
          histVars>>

NoArgs ==
    [dry_run |-> FALSE, min_discount |-> None, stock_only |-> FALSE,
     discount_only |-> FALSE, amazon_only |-> FALSE, no_twitter |-> FALSE,
     no_threads |-> FALSE, add |-> None, add_file |-> None]
NoConfig ==
    [min_discount_percent |-> None, amazon_only |-> FALSE,
     tracking_asins |-> <<>>]
NoDispatch == [instock |-> <<>>, discount |-> <<>>]

\* the memory of a process that has not entered main
FreshMain ==
    /\ args = NoArgs
    /\ config = NoConfig
    /\ min_discount = MIN_DISCOUNT_PERCENT
    /\ previous_results = <<>>
    /\ previous_asins = {}
    /\ stock_history = << >>
    /\ i = 0
    /\ attempt = 0
    /\ product_info = <<>>
    /\ newly_in_stock = <<>>
    /\ new_discounted_items = <<>>
    /\ save_ok = None
    /\ dispatched = NoDispatch
    /\ batchRaised = FALSE
    /\ failed_ids = {}

\* the same of the next state
ResetMain ==
    /\ args' = NoArgs
    /\ config' = NoConfig
    /\ min_discount' = MIN_DISCOUNT_PERCENT
    /\ previous_results' = <<>>
    /\ previous_asins' = {}
    /\ stock_history' = << >>
    /\ i' = 0
    /\ attempt' = 0
    /\ product_info' = <<>>
    /\ newly_in_stock' = <<>>
    /\ new_discounted_items' = <<>>
    /\ save_ok' = None
    /\ dispatched' = NoDispatch
    /\ batchRaised' = FALSE
    /\ failed_ids' = {}

\* nothing has run before
HistIdle ==
    /\ configAtStart = configFile
    /\ savedIds = {}
    /\ restockedSince = {}

GatewayIdle ==
    /\ gwAttempt = 0
    /\ gwLog = <<>>
    /\ gwResult = "running"
    /\ gwBatch = None

ComposeIdle ==
    /\ composeType = "discount"
    /\ composeProduct = None
    /\ post = None
    /\ urlAsin = ""
    /\ urlItem = [DetailPageURL |-> None]
    /\ detail_url = None

PublishIdle ==
    /\ pubFn = "twitter"
    /\ pubCompose = "ok"
    /\ pubToken = "long_lived"
    /\ pubAttempt = 0
    /\ pubLog = <<>>
    /\ pubResult = "start"

\* no posting credentials, nothing posted
SocialIdle ==
    /\ twitter_ready = FALSE
    /\ threads_ready = FALSE
    /\ twitter_client = None
    /\ calls = <<>>
    /\ twitter_result = None
    /\ threads_result = None
    /\ PublishIdle
    /\ ComposeIdle

Init ==
    /\ env \in Envs
    /\ configFile \in {ConfigOk(c) : c \in Configs}
    /\ resultsFile \in {FileOf("missing"), FileOf("empty"), FileOf("malformed")}
    /\ pc = "init"
    /\ runs = 0
    /\ netUsed = FALSE
    /\ configIO = FALSE
    /\ resultsIO = FALSE
    /\ FreshMain
    /\ discountedBefore = {}
    /\ fileAtStart = resultsFile
    /\ saveCalls = 0
    /\ HistIdle
    /\ GatewayIdle
    /\ SocialIdle

(***************************************************************************)
(* The process.                                                            *)
(***************************************************************************)
\* the ids a run fetched as not in stock
OutOfStockIds(info) ==
    {info[k].asin : k \in {m \in 1..Len(info) : ~info[m].is_in_stock}}

\* A process starts: the module level code of lines 15-96.  The process
\* before it has ended and its discount stream joins the history.
Boot ==
    /\ pc \in {"init", "done", "aborted"}
    /\ runs < MaxRuns
    /\ runs' = runs + 1
    /\ pc' = IF ExitsAtImport(env) THEN "exited" ELSE "main"
    /\ netUsed' = FALSE
    /\ configIO' = FALSE
    /\ resultsIO' = FALSE
    /\ ResetMain
    /\ discountedBefore' = discountedBefore \cup Keys(new_discounted_items)
    /\ fileAtStart' = resultsFile
    /\ saveCalls' = 0
    /\ configAtStart' = configFile
    /\ savedIds' = savedIds \cup Keys(load_previous_results(resultsFile))
    /\ restockedSince' =
          IF save_ok = Some(FALSE) THEN {}
          ELSE (restockedSince \ OutOfStockIds(product_info))
               \cup Keys(newly_in_stock)
    /\ UNCHANGED <<env, configFile, resultsFile, gwVars, socialVars>>

\* main up to the chunk loop (lines 818-921), without --add and --add-file
StartRun(a) ==
    /\ pc = "main"
    /\ ~IsAdd(a)
    /\ args' = a
    /\ config' = load_asin_list(configFile)
    /\ configFile' = ConfigAfterLoad(configFile)
    /\ configIO' = TRUE
    /\ min_discount' = min_discount_of(a, config')
    /\ IF config'.tracking_asins = <<>>
       THEN \* lines 898-900
            /\ pc' = "done"
            /\ UNCHANGED <<resultsFile, resultsIO, previous_results,
                           previous_asins, stock_history>>
       ELSE /\ pc' = "fetch"
            /\ previous_results' = load_previous_results(resultsFile)
            /\ resultsFile' = FileAfterLoad(resultsFile)
            /\ resultsIO' = TRUE
            /\ previous_asins' = Keys(previous_results')
            /\ stock_history' =
                  create_stock_history(load_previous_results(resultsFile'))
    /\ UNCHANGED <<histVars, env, runs, netUsed, i, attempt, product_info,
                   newly_in_stock, new_discounted_items, save_ok, dispatched,
                   batchRaised, failed_ids, discountedBefore, fileAtStart,
                   saveCalls, gwVars, socialVars>>

\* ChunkDone that leaves the loop of line 922 after its first chunk
ChunkDone_LeavesLoop(batch_info) ==
    /\ product_info' = DictUpdate(product_info, batch_info)
    /\ i' = i + MAX_BATCH_SIZE
    /\ attempt' = 0
    /\ pc' = "classify"
    /\ batchRaised' = batchRaised

\* lines 922-928: the chunk is done with batch_info, the loop goes on
ChunkDone(batch_info) ==
    /\ product_info' = DictUpdate(product_info, batch_info)
    /\ i' = i + MAX_BATCH_SIZE
    /\ attempt' = 0
    /\ pc' = IF i' < Len(config.tracking_asins) THEN "fetch" ELSE "classify"
    /\ batchRaised' = batchRaised

\* One request of get_product_info_batch for the chunk at i (lines 263-374
\* with one iteration of call_pa_api), answered by kind and, for "ok", body.
FetchAttempt(kind, body) ==
    /\ pc = "fetch"
    /\ LET batch == BatchAt(config.tracking_asins, i)
           step == AttemptStep(attempt, kind)
           out == BatchOfBody(body)
       IN IF ~pa_api_ready_of(env)
          THEN \* lines 265-267
               /\ ChunkDone(<<>>)
               /\ UNCHANGED <<netUsed, failed_ids>>
          ELSE /\ netUsed' = TRUE
               /\ IF step.next = "data"
                  THEN IF out.raised
                       THEN \* the exception reaches line 1084
                            /\ pc' = "aborted"
                            /\ batchRaised' = TRUE
                            /\ UNCHANGED <<i, attempt, product_info,
                                           failed_ids>>
                       ELSE /\ ChunkDone(out.result)
                            /\ UNCHANGED failed_ids
                  ELSE IF step.next = "retry" /\ ~LoopExhausted(attempt + 1)
                  THEN /\ attempt' = attempt + 1
                       /\ UNCHANGED <<pc, i, product_info, batchRaised,
                                      failed_ids>>
                  ELSE \* call_pa_api returns None, line 291 returns {}
                       /\ ChunkDone(<<>>)
                       /\ failed_ids' = failed_ids \cup Range(batch)
    /\ UNCHANGED <<histVars, env, configFile, resultsFile, runs, configIO, resultsIO,
                   args, config, min_discount, previous_results,
                   previous_asins, stock_history, newly_in_stock,
                   new_discounted_items, save_ok, dispatched,
                   discountedBefore, fileAtStart, saveCalls, gwVars,
                   socialVars>>

\* product_info as lines 958 and 981-982 leave it
InfoAfter(info, a, asins) ==
    WithPosted(IF a.stock_only THEN info ELSE calculate_discount_info(info),
               asins)

\* ClassifyAndSave that lets a failed write end the run
ClassifyAndSave_AbortsOnFailure(outcome) ==
    /\ pc = "classify"
    /\ LET info == InfoAfter(product_info, args, previous_asins)
           saved == save_results(all_products_of(info, previous_results),
                                 resultsFile, outcome)
       IN /\ product_info' = info
          /\ newly_in_stock' =
                newly_in_stock_of(info, stock_history, args, config)
          /\ new_discounted_items' =
                new_discounted_items_of(info, previous_asins, min_discount,
                                        args, config)
          /\ resultsFile' = saved.file
          /\ save_ok' = Some(saved.ok)
          /\ saveCalls' = saveCalls + 1
          /\ pc' = IF ~saved.ok THEN "aborted"
                   ELSE IF newly_in_stock' = <<>> /\ new_discounted_items' = <<>>
                   THEN "done" ELSE "dispatch"
    /\ UNCHANGED <<histVars, env, configFile, runs, procVars, args, config,
                   min_discount, previous_results, previous_asins,
                   stock_history, i, attempt, dispatched, batchRaised,
                   failed_ids, discountedBefore, fileAtStart, gwVars,
                   socialVars>>

\* ClassifyAndSave that leaves the snapshot alone in a dry run
ClassifyAndSave_NotInDryRun(outcome) ==
    /\ pc = "classify"
    /\ LET info == InfoAfter(product_info, args, previous_asins)
           saved == save_results(all_products_of(info, previous_results),
                                 resultsFile, outcome)
       IN /\ product_info' = info
          /\ newly_in_stock' =
                newly_in_stock_of(info, stock_history, args, config)
          /\ new_discounted_items' =
                new_discounted_items_of(info, previous_asins, min_discount,
                                        args, config)
          /\ resultsFile' = IF args.dry_run THEN resultsFile ELSE saved.file
          /\ save_ok' = Some(saved.ok)
          /\ saveCalls' = saveCalls + 1
    /\ pc' = IF newly_in_stock' = <<>> /\ new_discounted_items' = <<>>
             THEN "done" ELSE "dispatch"
    /\ UNCHANGED <<histVars, env, configFile, runs, procVars, args, config,
                   min_discount, previous_results, previous_asins,
                   stock_history, i, attempt, dispatched, batchRaised,
                   failed_ids, discountedBefore, fileAtStart, gwVars,
                   socialVars>>

\* main from the classification to the save (lines 930-995); outcome is
\* what the file system does to the write
ClassifyAndSave(outcome) ==
    /\ pc = "classify"
    /\ LET info == InfoAfter(product_info, args, previous_asins)
           saved == save_results(all_products_of(info, previous_results),
                                 resultsFile, outcome)
       IN /\ product_info' = info
          /\ newly_in_stock' =
                newly_in_stock_of(info, stock_history, args, config)
          /\ new_discounted_items' =
                new_discounted_items_of(info, previous_asins, min_discount,
                                        args, config)
          /\ resultsFile' = saved.file
          /\ save_ok' = Some(saved.ok)
          /\ saveCalls' = saveCalls + 1
    /\ pc' = IF newly_in_stock' = <<>> /\ new_discounted_items' = <<>>
             THEN "done" ELSE "dispatch"
    /\ UNCHANGED <<histVars, env, configFile, runs, procVars, args, config,
                   min_discount, previous_results, previous_asins,
                   stock_history, i, attempt, dispatched, batchRaised,
                   failed_ids, discountedBefore, fileAtStart, gwVars,
                   socialVars>>

\* FirstToPost without the limit of lines 1001 and 1022
FirstToPost_All(stream) == stream

\* lines 1001-1004 and 1022-1025: the items a stream hands to the posting
FirstToPost(stream) == SubSeq(stream, 1, Min(POST_LIMIT, Len(stream)))

\* Dispatch that writes the snapshot again when it has posted
Dispatch_ThenSaves ==
    /\ pc = "dispatch"
    /\ pc' = "done"
    /\ dispatched' =
          IF args.dry_run THEN NoDispatch
          ELSE [instock |-> FirstToPost(newly_in_stock),
                discount |-> FirstToPost(new_discounted_items)]
    /\ saveCalls' = saveCalls + 1
    /\ UNCHANGED <<histVars, env, configFile, resultsFile, runs, procVars, args,
                   config, min_discount, previous_results, previous_asins,
                   stock_history, i, attempt, product_info, newly_in_stock,
                   new_discounted_items, save_ok, batchRaised, failed_ids,
                   discountedBefore, fileAtStart, gwVars, socialVars>>

\* main from line 997 to the end: the dispatch of the two streams
Dispatch ==
    /\ pc = "dispatch"
    /\ pc' = "done"
    /\ dispatched' =
          IF args.dry_run THEN NoDispatch
          ELSE [instock |-> FirstToPost(newly_in_stock),
                discount |-> FirstToPost(new_discounted_items)]
    /\ UNCHANGED <<histVars, env, configFile, resultsFile, runs, procVars, args, config,
                   min_discount, previous_results, previous_asins,
                   stock_history, i, attempt, product_info, newly_in_stock,
                   new_discounted_items, save_ok, batchRaised, failed_ids,
                   discountedBefore, fileAtStart, saveCalls, gwVars,
                   socialVars>>

Next ==
    \/ Boot
    \/ \E a \in ArgSet : StartRun(a)
    \/ \E kind \in RespKinds :
          IF kind = "ok"
          THEN \E body \in Bodies(BatchAt(config.tracking_asins, i),
                                  Shapes \cup BadShapes) :
                  FetchAttempt(kind, body)
          ELSE FetchAttempt(kind, NoItemsBody)
    \/ \E outcome \in SaveOutcomes : ClassifyAndSave(outcome)
    \/ Dispatch

Spec == Init /\ [][Next]_vars

(***************************************************************************)
(* The process over a snapshot an earlier run has left: the runs of Spec   *)
(* with every credential set, started on the snapshot of a run that        *)
(* fetched "a" alone.                                                      *)
(***************************************************************************)
\* the snapshots a run over ["a"] writes (lines 977-990)
SeedSnapshots ==
    {FileOk(Truncate(InfoAfter(<<NormalizeItem([sh EXCEPT !.ASIN = Some("a")])>>,
                               NoArgs, {}))) : sh \in Shapes}

InitSeeded ==
    /\ env = [PA_API_KEY |-> TRUE, PA_API_SECRET |-> TRUE, PARTNER_TAG |-> TRUE]
    /\ configFile \in {ConfigOk(c) : c \in {d \in Configs :
                          /\ d.tracking_asins # <<>>
                          /\ d.min_discount_percent = None}}
    /\ resultsFile \in SeedSnapshots
    /\ pc = "init"
    /\ runs = 0
    /\ netUsed = FALSE
    /\ configIO = FALSE
    /\ resultsIO = FALSE
    /\ FreshMain
    /\ discountedBefore = {}
    /\ fileAtStart = resultsFile
    /\ saveCalls = 0
    /\ HistIdle
    /\ GatewayIdle
    /\ SocialIdle

SpecSeeded == InitSeeded /\ [][Next]_vars

(***************************************************************************)
(* The config alone: main up to the chunk loop, on a config file in every  *)
(* condition, for the command lines that add ids and for those of a        *)
(* detection run with and without --min-discount.                          *)
(***************************************************************************)
InitConfig ==
    /\ env = [PA_API_KEY |-> TRUE, PA_API_SECRET |-> TRUE, PARTNER_TAG |-> TRUE]
    /\ configFile \in ConfigFiles
    /\ resultsFile \in {FileOf("missing"), FileOf("empty")}
    /\ pc = "main"
    /\ runs = 1
    /\ netUsed = FALSE
    /\ configIO = FALSE
    /\ resultsIO = FALSE
    /\ FreshMain
    /\ discountedBefore = {}
    /\ fileAtStart = resultsFile
    /\ saveCalls = 0
    /\ HistIdle
    /\ GatewayIdle
    /\ SocialIdle

\* main with --add or --add-file (lines 845-881)
AddIdentifiers(a) ==
    /\ pc = "main"
    /\ IsAdd(a)
    /\ args' = a
    /\ LET loaded == load_asin_list(configFile)
           tracking == TrackingAfterAdd(loaded.tracking_asins, a)
       IN /\ config' = [loaded EXCEPT !.tracking_asins = tracking]
          /\ configFile' =
                IF Len(tracking) > Len(loaded.tracking_asins)
                THEN ConfigOk(config')
                ELSE ConfigAfterLoad(configFile)
    /\ configIO' = TRUE
    /\ pc' = "done"
    /\ UNCHANGED <<histVars, env, resultsFile, runs, netUsed, resultsIO,
                   min_discount, previous_results, previous_asins,
                   stock_history, i, attempt, product_info, newly_in_stock,
                   new_discounted_items, save_ok, dispatched, batchRaised,
                   failed_ids, discountedBefore, fileAtStart, saveCalls,
                   gwVars, socialVars>>

NextConfig ==
    \/ \E a \in AddArgSet : AddIdentifiers(a)
    \/ \E a \in ThresholdArgSet : StartRun(a)

SpecConfig == InitConfig /\ [][NextConfig]_vars

(***************************************************************************)
(* The gateway alone: one call of get_product_info_batch (lines 263-374)   *)
(* for the chunk GwChunk, request by request, with the log of what         *)
(* call_pa_api sends and how long it sleeps.                               *)
(***************************************************************************)
GwChunk == <<"a", "b">>

RequestEvent(n, kind) == [ev |-> "request", kind |-> kind, n |-> n]
SleepEvents(sleeps) ==
    [k \in 1..Len(sleeps) |-> [ev |-> "sleep", kind |-> "", n |-> sleeps[k]]]

InitGateway ==
    /\ env = [PA_API_KEY |-> TRUE, PA_API_SECRET |-> TRUE, PARTNER_TAG |-> TRUE]
    /\ configFile = ConfigOk(NoConfig)
    /\ resultsFile = FileOf("missing")
    /\ pc = "gateway"
    /\ runs = 0
    /\ netUsed = FALSE
    /\ configIO = FALSE
    /\ resultsIO = FALSE
    /\ FreshMain
    /\ discountedBefore = {}
    /\ fileAtStart = resultsFile
    /\ saveCalls = 0
    /\ HistIdle
    /\ GatewayIdle
    /\ SocialIdle

\* one iteration of the loop of call_pa_api inside get_product_info_batch
GwAttempt(kind, body) ==
    /\ pc = "gateway"
    /\ gwResult = "running"
    /\ LET step == AttemptStep(gwAttempt, kind)
       IN /\ gwLog' = gwLog \o <<RequestEvent(gwAttempt, kind)>>
                            \o SleepEvents(step.sleeps)
          /\ netUsed' = TRUE
          /\ IF step.next = "data"
             THEN /\ gwResult' = "data"
                  /\ gwBatch' = Some(BatchOfBody(body))
                  /\ UNCHANGED gwAttempt
             ELSE IF step.next = "retry" /\ ~LoopExhausted(gwAttempt + 1)
             THEN /\ gwAttempt' = gwAttempt + 1
                  /\ UNCHANGED <<gwResult, gwBatch>>
             ELSE /\ gwResult' = "none"
                  /\ gwBatch' = Some([raised |-> FALSE, result |-> <<>>])
                  /\ UNCHANGED gwAttempt
    /\ UNCHANGED <<histVars, env, configFile, resultsFile, pc, runs, configIO,
                   resultsIO, mainVars, discountedBefore, fileAtStart,
                   saveCalls, socialVars>>

NextGateway ==
    \E kind \in RespKinds :
        IF kind = "ok"
        THEN \E body \in Bodies(GwChunk, Shapes \cup BadShapes) :
                GwAttempt(kind, body)
        ELSE GwAttempt(kind, NoItemsBody)

SpecGateway == InitGateway /\ [][NextGateway]_vars

(***************************************************************************)
(* The dispatcher alone: main's set-up of the Twitter client (lines        *)
(* 911-918) and its posting part (lines 992-1041) on the two streams of a  *)
(* classification, one item of a stream at a time.                         *)
(***************************************************************************)
MaxPostable == 6

PostableIds == <<"p1", "p2", "p3", "p4", "p5", "p6", "p7", "p8">>

\* the command line of a run that posts
DispatchArgSet ==
    [dry_run : BOOLEAN,
     min_discount : {None},
     stock_only : {FALSE},
     discount_only : {FALSE},
     amazon_only : {FALSE},
     no_twitter : BOOLEAN,
     no_threads : BOOLEAN,
     add : {None},
     add_file : {None}]

\* what the catalog says of the ids of a run that posts: in stock, at 50%
\* or at 15% below the saving basis
DispatchShapes ==
    {RawShape(Num(p), Num(100), <<"zaiko_ari">>, "Amazon.co.jp") :
        p \in {50, 85}}

DispatchSizes == {0, 2, MaxPostable}

\* product_info after the chunk loop and calculate_discount (line 958)
DispatchInfos ==
    UNION {{calculate_discount_info(
                [k \in 1..n |->
                    NormalizeItem([f[k] EXCEPT !.ASIN = Some(PostableIds[k])])]) :
              f \in [1..n -> DispatchShapes]} : n \in DispatchSizes}

\* the stock index of a previous snapshot that had every id out of stock
AllOutOfStock(info) ==
    [id \in Keys(info) |->
        [is_in_stock |-> FALSE, availability |-> <<"zaiko_gire">>,
         price |-> None]]

InitDispatch ==
    /\ env = [PA_API_KEY |-> TRUE, PA_API_SECRET |-> TRUE, PARTNER_TAG |-> TRUE]
    /\ configFile = ConfigOk(NoConfig)
    /\ resultsFile = FileOf("missing")
    /\ pc = "setup"
    /\ runs = 1
    /\ netUsed = FALSE
    /\ configIO = FALSE
    /\ resultsIO = FALSE
    /\ args \in DispatchArgSet
    /\ config = NoConfig
    /\ min_discount = MIN_DISCOUNT_PERCENT
    /\ previous_results = <<>>
    /\ previous_asins = {}
    /\ product_info \in DispatchInfos
    /\ stock_history \in {<< >>, AllOutOfStock(product_info)}
    /\ i = 0
    /\ attempt = 0
    /\ newly_in_stock =
          newly_in_stock_of(product_info, stock_history, args, config)
    /\ new_discounted_items =
          new_discounted_items_of(product_info, previous_asins, min_discount,
                                  args, config)
    /\ save_ok = None
    /\ dispatched = NoDispatch
    /\ batchRaised = FALSE
    /\ failed_ids = {}
    /\ discountedBefore = {}
    /\ fileAtStart = resultsFile
    /\ saveCalls = 0
    /\ HistIdle
    /\ GatewayIdle
    /\ twitter_ready \in BOOLEAN
    /\ threads_ready \in BOOLEAN
    /\ twitter_client = None
    /\ calls = <<>>
    /\ twitter_result = None
    /\ threads_result = None
    /\ PublishIdle
    /\ ComposeIdle

\* one call of a function that talks to a posting endpoint
Call(fn, asin, notification_type) ==
    [fn |-> fn, asin |-> asin, notification_type |-> notification_type]

\* lines 993-1000 and 1021: where main goes after the stream `done`
\* ("" for none) with the two streams
NextStream(done, instock, discount, a) ==
    IF instock = <<>> /\ discount = <<>> THEN "done"
    ELSE IF a.dry_run THEN "done"
    ELSE IF done = "" /\ instock # <<>> THEN "post_instock"
    ELSE IF done # "post_discount" /\ discount # <<>> THEN "post_discount"
    ELSE "done"

\* lines 911-918; ok is whether setup_twitter_api (lines 497-526), which
\* sends get_me to the endpoint, returns a client
SetupTwitter(ok) ==
    /\ pc = "setup"
    /\ IF ~args.no_twitter /\ twitter_ready
       THEN /\ twitter_client' = IF ok THEN Some("client") ELSE None
            /\ calls' = Append(calls, Call("get_me", "", ""))
       ELSE UNCHANGED <<twitter_client, calls>>
    /\ pc' = NextStream("", newly_in_stock, new_discounted_items, args)
    /\ UNCHANGED <<histVars, env, configFile, resultsFile, runs, procVars, args, config,
                   min_discount, previous_results, previous_asins,
                   stock_history, i, attempt, product_info, newly_in_stock,
                   new_discounted_items, save_ok, dispatched, batchRaised,
                   failed_ids, discountedBefore, fileAtStart, saveCalls,
                   gwVars, twitter_ready, threads_ready, twitter_result,
                   threads_result, publishVars, composeVars, urlVars>>

\* CollaboratorCalls with the two posting functions in the other order
CollaboratorCalls_ThreadsFirst(product, notification_type, twitter_on, threads_on) ==
    (IF threads_on
     THEN <<Call("post_to_threads", product.asin, notification_type)>>
     ELSE <<>>)
    \o (IF twitter_on
        THEN <<Call("post_to_twitter", product.asin, notification_type)>>
        ELSE <<>>)

\* lines 1007-1015 and 1028-1036: the posting functions called for one item
CollaboratorCalls(product, notification_type, twitter_on, threads_on) ==
    (IF twitter_on
     THEN <<Call("post_to_twitter", product.asin, notification_type)>>
     ELSE <<>>)
    \o (IF threads_on
        THEN <<Call("post_to_threads", product.asin, notification_type)>>
        ELSE <<>>)

\* One iteration of the loop of line 1004 (pc = "post_instock") or of line
\* 1025 (pc = "post_discount"); tw and th are what post_to_twitter and
\* post_to_threads return when they are called.
PostItem(tw, th) ==
    /\ pc \in {"post_instock", "post_discount"}
    /\ LET instock == pc = "post_instock"
           stream == FirstToPost(IF instock THEN newly_in_stock
                                 ELSE new_discounted_items)
           product == stream[i + 1]
           twitter_on == twitter_client # None /\ ~args.no_twitter
           threads_on == threads_ready /\ ~args.no_threads
       IN /\ calls' = calls \o CollaboratorCalls(
                                  product,
                                  IF instock THEN "instock" ELSE "discount",
                                  twitter_on, threads_on)
          /\ twitter_result' = IF twitter_on THEN Some(tw) ELSE twitter_result
          /\ threads_result' = IF threads_on THEN Some(th) ELSE threads_result
          /\ dispatched' =
                IF instock
                THEN [dispatched EXCEPT !.instock = Append(@, product)]
                ELSE [dispatched EXCEPT !.discount = Append(@, product)]
          /\ IF i + 1 < Len(stream)
             THEN /\ i' = i + 1
                  /\ pc' = pc
             ELSE /\ i' = 0
                  /\ pc' = NextStream(pc, newly_in_stock,
                                      new_discounted_items, args)
    /\ UNCHANGED <<histVars, env, configFile, resultsFile, runs, procVars, args, config,
                   min_discount, previous_results, previous_asins,
                   stock_history, attempt, product_info, newly_in_stock,
                   new_discounted_items, save_ok, batchRaised, failed_ids,
                   discountedBefore, fileAtStart, saveCalls, gwVars,
                   twitter_ready, threads_ready, twitter_client, publishVars,
                   composeVars, urlVars>>

NextDispatch ==
    \/ \E ok \in BOOLEAN : SetupTwitter(ok)
    \/ \E tw, th \in BOOLEAN : PostItem(tw, th)

SpecDispatch == InitDispatch /\ [][NextDispatch]_vars

(***************************************************************************)
(* One whole run with its posting: main from the command line to the end   *)
(* (lines 818-1041), under every choice of --dry-run, --no-twitter and     *)
(* --no-threads, with or without posting credentials, whatever the         *)
(* posting endpoints answer.                                               *)
(***************************************************************************)
InitFlags ==
    /\ env = [PA_API_KEY |-> TRUE, PA_API_SECRET |-> TRUE, PARTNER_TAG |-> TRUE]
    /\ configFile \in {ConfigOk(c) : c \in {d \in Configs :
                          /\ d.tracking_asins # <<>>
                          /\ d.min_discount_percent = None}}
    /\ resultsFile \in SeedSnapshots \cup {FileOf("missing")}
    /\ pc = "main"
    /\ runs = 1
    /\ netUsed = FALSE
    /\ configIO = FALSE
    /\ resultsIO = FALSE
    /\ FreshMain
    /\ discountedBefore = {}
    /\ fileAtStart = resultsFile
    /\ saveCalls = 0
    /\ HistIdle
    /\ GatewayIdle
    /\ twitter_ready \in BOOLEAN
    /\ threads_ready \in BOOLEAN
    /\ twitter_client = None
    /\ calls = <<>>
    /\ twitter_result = None
    /\ threads_result = None
    /\ PublishIdle
    /\ ComposeIdle

\* main up to the chunk loop (lines 818-921) with the set-up of the
\* Twitter client (lines 911-918); ok is whether setup_twitter_api returns
\* a client
StartRunAndSetup(a, ok) ==
    /\ pc = "main"
    /\ ~IsAdd(a)
    /\ args' = a
    /\ config' = load_asin_list(configFile)
    /\ configFile' = ConfigAfterLoad(configFile)
    /\ configIO' = TRUE
    /\ min_discount' = min_discount_of(a, config')
    /\ IF config'.tracking_asins = <<>>
       THEN \* lines 898-900
            /\ pc' = "done"
            /\ UNCHANGED <<resultsFile, resultsIO, previous_results,
                           previous_asins, stock_history, twitter_client,
                           calls>>
       ELSE /\ pc' = "fetch"
            /\ previous_results' = load_previous_results(resultsFile)
            /\ resultsFile' = FileAfterLoad(resultsFile)
            /\ resultsIO' = TRUE
            /\ previous_asins' = Keys(previous_results')
            /\ stock_history' =
                  create_stock_history(load_previous_results(resultsFile'))
            /\ IF ~a.no_twitter /\ twitter_ready
               THEN /\ twitter_client' = IF ok THEN Some("client") ELSE None
                    /\ calls' = Append(calls, Call("get_me", "", ""))
               ELSE UNCHANGED <<twitter_client, calls>>
    /\ UNCHANGED <<histVars, env, runs, netUsed, i, attempt, product_info,
                   newly_in_stock, new_discounted_items, save_ok, dispatched,
                   batchRaised, failed_ids, discountedBefore, fileAtStart,
                   saveCalls, gwVars, twitter_ready, threads_ready,
                   twitter_result, threads_result, publishVars, composeVars,
                   urlVars>>

\* lines 997-1004 and 1040-1041: main enters the posting of the first
\* stream that has items, or only prints them in a dry run
EnterPosting ==
    /\ pc = "dispatch"
    /\ pc' = NextStream("", newly_in_stock, new_discounted_items, args)
    /\ i' = 0
    /\ UNCHANGED <<histVars, env, configFile, resultsFile, runs, procVars,
                   args, config, min_discount, previous_results,
                   previous_asins, stock_history, attempt, product_info,
                   newly_in_stock, new_discounted_items, save_ok, dispatched,
                   batchRaised, failed_ids, discountedBefore, fileAtStart,
                   saveCalls, gwVars, socialVars>>

NextFlags ==
    \/ \E a \in DispatchArgSet, ok \in BOOLEAN : StartRunAndSetup(a, ok)
    \/ \E kind \in RespKinds :
          IF kind = "ok"
          THEN \E body \in Bodies(BatchAt(config.tracking_asins, i),
                                  Shapes \cup BadShapes) :
                  FetchAttempt(kind, body)
          ELSE FetchAttempt(kind, NoItemsBody)
    \/ \E outcome \in SaveOutcomes : ClassifyAndSave(outcome)
    \/ EnterPosting
    \/ \E tw, th \in BOOLEAN : PostItem(tw, th)

SpecFlags == InitFlags /\ [][NextFlags]_vars

(***************************************************************************)
(* A publisher alone: one call of post_to_twitter (lines 528-617) or of    *)
(* post_to_threads (lines 660-816), attempt by attempt.  The kinds of      *)
(* answer to one attempt of post_to_twitter:                               *)
(*   "ok"                a response with the id of the tweet               *)
(*   "no_id"             a response without                                *)
(*   "tweepy_error"      TweepyException (transport, HTTP status)          *)
(*   "error"             another exception                                 *)
(* and of post_to_threads:                                                 *)
(*   "upload_non200"     the container request gets another status         *)
(*   "upload_no_id"      status 200, no container id                       *)
(*   "upload_bad_json"   status 200, a body that is no JSON                *)
(*   "upload_transport"  RequestException on the container request         *)
(*   "publish_non200"    the publish request gets another status           *)
(*   "publish_transport" RequestException on the publish request           *)
(*   "ok"                both requests get 200                             *)
(***************************************************************************)
TwitterKinds == {"ok", "no_id", "tweepy_error", "error"}
ThreadsKinds == {"ok", "upload_non200", "upload_no_id", "upload_bad_json",
                 "upload_transport", "publish_non200", "publish_transport"}
PublishKinds(fn) == IF fn = "twitter" THEN TwitterKinds ELSE ThreadsKinds

\* MoreAttempts with one attempt too many
MoreAttempts_OneMore(n) == n < MAX_RETRIES

\* lines 596, 603, 610, 744, 758, 765, 787, 799, 807
MoreAttempts(n) == n < MAX_RETRIES - 1

\* lines 597, 604, 611, 745-747, 759, 766, 788, 800, 808
RetrySleep(fn, n, kind) ==
    IF fn = "threads" /\ kind = "upload_non200" THEN 5 * (n + 1) ELSE 5

\* AttemptRequests that sends the publish request whatever the container
\* request got
AttemptRequests_PublishAlways(fn, kind) ==
    IF fn = "twitter" THEN <<"create_tweet">>
    ELSE <<"threads", "threads_publish">>

\* the requests one attempt sends (lines 588, 738, 781)
AttemptRequests(fn, kind) ==
    IF fn = "twitter" THEN <<"create_tweet">>
    ELSE IF kind \in {"ok", "publish_non200", "publish_transport"}
    THEN <<"threads", "threads_publish">>
    ELSE <<"threads">>

\* One iteration of the loop of line 585 or of line 722 that gets `kind`:
\* "True", "False" (the function returns) or "retry" (continue), and the
\* sleep before the retry.
PublishStep(fn, n, kind) ==
    IF kind = "ok" THEN [next |-> "True", sleeps |-> <<>>]
    ELSE IF MoreAttempts(n)
    THEN [next |-> "retry", sleeps |-> <<RetrySleep(fn, n, kind)>>]
    ELSE [next |-> "False", sleeps |-> <<>>]

\* what the function returns when its loop ends without a return: nothing
\* after the loop of post_to_twitter (line 614), False at line 812
AfterLoop(fn) == IF fn = "twitter" THEN "None" ELSE "False"

PubRequest(n, to) == [ev |-> "request", attempt |-> n, to |-> to]
PubAnswer(n, kind) == [ev |-> "answer", attempt |-> n, to |-> kind]
PubSleep(n, secs) == [ev |-> "sleep", attempt |-> n, to |-> secs]

InitPublish ==
    /\ env = [PA_API_KEY |-> TRUE, PA_API_SECRET |-> TRUE, PARTNER_TAG |-> TRUE]
    /\ configFile = ConfigOk(NoConfig)
    /\ resultsFile = FileOf("missing")
    /\ pc = "publish"
    /\ runs = 1
    /\ netUsed = FALSE
    /\ configIO = FALSE
    /\ resultsIO = FALSE
    /\ args \in {a \in DispatchArgSet : ~a.no_twitter /\ ~a.no_threads}
    /\ config = NoConfig
    /\ min_discount = MIN_DISCOUNT_PERCENT
    /\ previous_results = <<>>
    /\ previous_asins = {}
    /\ stock_history = << >>
    /\ i = 0
    /\ attempt = 0
    /\ product_info = <<>>
    /\ newly_in_stock = <<>>
    /\ new_discounted_items = <<>>
    /\ save_ok = None
    /\ dispatched = NoDispatch
    /\ batchRaised = FALSE
    /\ failed_ids = {}
    /\ discountedBefore = {}
    /\ fileAtStart = resultsFile
    /\ saveCalls = 0
    /\ HistIdle
    /\ GatewayIdle
    /\ twitter_ready \in BOOLEAN
    /\ threads_ready \in BOOLEAN
    /\ twitter_client \in (IF twitter_ready THEN {None, Some("client")}
                           ELSE {None})
    /\ calls = <<>>
    /\ twitter_result = None
    /\ threads_result = None
    /\ pubFn \in {"twitter", "threads"}
    /\ pubCompose \in {"ok", "raises"}
    /\ pubToken \in {"long_lived", "fetched", "fetch_failed"}
    /\ pubAttempt = 0
    /\ pubLog = <<>>
    /\ pubResult = "start"
    /\ ComposeIdle

\* The function up to its loop: lines 530-582 of post_to_twitter, lines
\* 662-719 of post_to_threads with get_threads_access_token (lines 619-658)
PublishBegin ==
    /\ pc = "publish"
    /\ pubResult = "start"
    /\ IF pubFn = "twitter"
       THEN /\ pubResult' =
                  IF twitter_client = None THEN "False"
                  ELSE IF pubCompose = "raises" THEN "False"
                  ELSE IF args.dry_run THEN "True"
                  ELSE "running"
            /\ UNCHANGED pubLog
       ELSE /\ pubResult' =
                  IF ~threads_ready THEN "False"
                  ELSE IF pubToken = "fetch_failed" THEN "False"
                  ELSE IF pubCompose = "raises" THEN "False"
                  ELSE IF args.dry_run THEN "True"
                  ELSE "running"
            /\ pubLog' =
                  IF threads_ready /\ pubToken # "long_lived"
                  THEN <<PubRequest(0, "oauth")>>
                  ELSE <<>>
    /\ UNCHANGED <<histVars, env, configFile, resultsFile, pc, runs, procVars, mainVars,
                   discountedBefore, fileAtStart, saveCalls, gwVars, postVars,
                   pubFn, pubCompose, pubToken, pubAttempt, composeVars, urlVars>>

\* one iteration of the loop of line 585 or of line 722
PublishAttempt(kind) ==
    /\ pc = "publish"
    /\ pubResult = "running"
    /\ LET step == PublishStep(pubFn, pubAttempt, kind)
           reqs == AttemptRequests(pubFn, kind)
       IN /\ pubLog' = pubLog
                \o [k \in 1..Len(reqs) |-> PubRequest(pubAttempt, reqs[k])]
                \o <<PubAnswer(pubAttempt, kind)>>
                \o [k \in 1..Len(step.sleeps) |->
                        PubSleep(pubAttempt, step.sleeps[k])]
          /\ IF step.next = "retry"
             THEN /\ pubAttempt' = pubAttempt + 1
                  /\ pubResult' = IF pubAttempt + 1 < MAX_RETRIES
                                  THEN "running" ELSE AfterLoop(pubFn)
             ELSE /\ pubResult' = step.next
                  /\ UNCHANGED pubAttempt
    /\ UNCHANGED <<histVars, env, configFile, resultsFile, pc, runs, procVars, mainVars,
                   discountedBefore, fileAtStart, saveCalls, gwVars, postVars,
                   pubFn, pubCompose, pubToken, composeVars, urlVars>>

NextPublish ==
    \/ PublishBegin
    \/ \E kind \in PublishKinds(pubFn) : PublishAttempt(kind)

SpecPublish == InitPublish /\ [][NextPublish]_vars

(***************************************************************************)
(* The composition alone: the text post_to_twitter (lines 535-578) and     *)
(* post_to_threads (lines 675-715) make of a record.  A text is given by   *)
(* its length in characters (len() of the source); a composed text is the  *)
(* sequence of its segments [seg, len].                                    *)
(***************************************************************************)
\* line 575: the length above which post_to_twitter shortens the title
TWEET_MAX == 280

\* lines 544, 557, 568: product['title'][:80]
TITLE_SHOWN == 80

\* line 576
title_max == 50

Seg(name, n) == [seg |-> name, len |-> n]

\* len(f"{n:,.0f}") of a whole number
RECURSIVE Digits(_)
Digits(n) == IF n < 10 THEN 1 ELSE 1 + Digits(n \div 10)

MoneyWidth(n) == Digits(n) + (Digits(n) - 1) \div 3

\* len(f"{x:.1f}") of the fraction x (the rounding left aside)
PercentWidth(x) == Digits(x.num \div x.den) + 2

\* the title as post_to_twitter first shows it, with "..." and "\n\n"
TitleSegs(p, shown) ==
    <<Seg("title", Min(p.title, shown)), Seg("title_tail", 5)>>

\* lines 536-572: the text of post_to_twitter before line 575
ComposeTwitter(p, t) ==
    IF t = "discount"
    THEN <<Seg("head", 23 + PercentWidth(p.discount_percent[1]))>>
         \o TitleSegs(p, TITLE_SHOWN)
         \o <<Seg("current", 10 + MoneyWidth(p.current_price[1])),
              Seg("original", 10 + MoneyWidth(p.original_price[1])),
              Seg("amount", 10 + MoneyWidth(p.discount_amount[1])),
              Seg("url", 11 + p.detail_page_url)>>
    ELSE IF t = "instock"
    THEN <<Seg("head", 26)>>
         \o TitleSegs(p, TITLE_SHOWN)
         \o (IF p.current_price # None /\ p.current_price[1] # 0
             THEN <<Seg("current", 8 + MoneyWidth(p.current_price[1]))>>
             ELSE <<>>)
         \o <<Seg("availability", 9 + p.availability)>>
         \o (IF p.seller # 0 THEN <<Seg("seller", 7 + p.seller)>> ELSE <<>>)
         \o <<Seg("url", 12 + p.detail_page_url)>>
    ELSE <<Seg("head", 26)>>
         \o TitleSegs(p, TITLE_SHOWN)
         \o (IF p.current_price # None /\ p.current_price[1] # 0
             THEN <<Seg("current", 8 + MoneyWidth(p.current_price[1]))>>
             ELSE <<>>)
         \o <<Seg("availability", 10 + p.availability),
              Seg("url", 11 + p.detail_page_url)>>

TextLen(text) == Sum([k \in 1..Len(text) |-> text[k].len])

\* lines 575-578: over TWEET_MAX the shown title gives way to the first
\* title_max characters of the title
Shorten(text, p) ==
    IF TextLen(text) > TWEET_MAX
    THEN [k \in 1..Len(text) |->
            IF text[k].seg = "title"
            THEN Seg("title", Min(p.title, title_max)) ELSE text[k]]
    ELSE text

\* lines 676-715: the text of post_to_threads
ComposeThreads(p, t) ==
    IF t = "discount"
    THEN <<Seg("head", 19 + PercentWidth(p.discount_percent[1])),
           Seg("title", p.title), Seg("title_tail", 2),
           Seg("current", 10 + MoneyWidth(p.current_price[1])),
           Seg("original", 10 + MoneyWidth(p.original_price[1])),
           Seg("amount", 10 + MoneyWidth(p.discount_amount[1])),
           Seg("url", 11 + p.detail_page_url), Seg("tags", 28)>>
    ELSE IF t = "instock"
    THEN <<Seg("head", 22), Seg("title", p.title), Seg("title_tail", 2)>>
         \o (IF p.current_price # None /\ p.current_price[1] # 0
             THEN <<Seg("current", 8 + MoneyWidth(p.current_price[1]))>>
             ELSE <<>>)
         \o <<Seg("availability", 9 + p.availability)>>
         \o (IF p.seller # 0 THEN <<Seg("seller", 7 + p.seller)>> ELSE <<>>)
         \o <<Seg("url", 12 + p.detail_page_url), Seg("tags", 28)>>
    ELSE <<Seg("head", 22), Seg("title", p.title), Seg("title_tail", 2)>>
         \o (IF p.current_price # None /\ p.current_price[1] # 0
             THEN <<Seg("current", 8 + MoneyWidth(p.current_price[1]))>>
             ELSE <<>>)
         \o <<Seg("availability", 10 + p.availability),
              Seg("url", 11 + p.detail_page_url), Seg("tags", 17)>>

\* the text the function hands to its endpoint
ComposedText(fn, p, t) ==
    IF fn = "twitter" THEN Shorten(ComposeTwitter(p, t), p)
    ELSE ComposeThreads(p, t)

\* the lengths of title and URL the composition is tried with
TitleLens == {0, 30, 50, 80, 81, 120}
UrlLens == {50, 75, 150}

\* records of the discount stream, each text given by its length
ComposeProducts ==
    {[title |-> tl, detail_page_url |-> ul, current_price |-> Some(cp),
      original_price |-> Some(2 * cp), discount_amount |-> Some(cp),
      discount_percent |-> Some([num |-> cp * 100, den |-> 2 * cp]),
      availability |-> 4, seller |-> se] :
        tl \in TitleLens, ul \in UrlLens, cp \in {50, 1200}, se \in {0, 12}}

InitCompose ==
    /\ env = [PA_API_KEY |-> TRUE, PA_API_SECRET |-> TRUE, PARTNER_TAG |-> TRUE]
    /\ configFile = ConfigOk(NoConfig)
    /\ resultsFile = FileOf("missing")
    /\ pc = "compose"
    /\ runs = 1
    /\ netUsed = FALSE
    /\ configIO = FALSE
    /\ resultsIO = FALSE
    /\ FreshMain
    /\ discountedBefore = {}
    /\ fileAtStart = resultsFile
    /\ saveCalls = 0
    /\ HistIdle
    /\ GatewayIdle
    /\ twitter_ready = TRUE
    /\ threads_ready = TRUE
    /\ twitter_client = Some("client")
    /\ calls = <<>>
    /\ twitter_result = None
    /\ threads_result = None
    /\ pubFn \in {"twitter", "threads"}
    /\ pubCompose = "ok"
    /\ pubToken = "long_lived"
    /\ pubAttempt = 0
    /\ pubLog = <<>>
    /\ pubResult = "start"
    /\ composeType \in {"discount", "instock", "other"}
    /\ composeProduct \in {Some(p) : p \in ComposeProducts}
    /\ post = None
    /\ urlAsin = ""
    /\ urlItem = [DetailPageURL |-> None]
    /\ detail_url = None

\* lines 535-578 or lines 675-715
Compose ==
    /\ pc = "compose"
    /\ post = None
    /\ post' = Some(ComposedText(pubFn, composeProduct[1], composeType))
    /\ UNCHANGED <<histVars, env, configFile, resultsFile, pc, runs, procVars, mainVars,
                   discountedBefore, fileAtStart, saveCalls, gwVars, postVars,
                   publishVars, composeType, composeProduct, urlVars>>

NextCompose == Compose

SpecCompose == InitCompose /\ [][NextCompose]_vars

(***************************************************************************)
(* The detail link alone: lines 350-357 of get_product_info_batch.  A URL  *)
(* is the sequence of its parts: the address up to the path, then "?",     *)
(* "&" and "#" and what stands between them, a query parameter being one   *)
(* part "name=value".  A substring test of the source for "?tag=" is the   *)
(* test for a "?" followed by a part that starts with "tag=".              *)
(***************************************************************************)
\* the most query parameters an upstream link is tried with
MaxParams == 3

\* the parts that start with "tag="
StartsWithTag(part) == part \in {"tag=PARTNER_TAG", "tag=other-22"}

\* sep + "tag=" in url, for sep "?" or "&"
HasSubstring(url, sep) ==
    \E k \in 1..(Len(url) - 1) : url[k] = sep /\ StartsWithTag(url[k + 1])

\* "?" in url
HasQuestionMark(url) == \E k \in 1..Len(url) : url[k] = "?"

\* lines 351-357
detail_url_of(asin, item, partner_tag) ==
    IF item.DetailPageURL # None
    THEN LET url == item.DetailPageURL[1]
         IN IF ~HasSubstring(url, "?") /\ ~HasSubstring(url, "&") /\ partner_tag
            THEN url \o <<IF HasQuestionMark(url) THEN "&" ELSE "?",
                          "tag=PARTNER_TAG">>
            ELSE url
    ELSE <<"https://www.amazon.co.jp/dp/", asin, "?", "tag=PARTNER_TAG">>

\* the query parameters an upstream link may carry
UpstreamParams == {"tag=other-22", "k=v", "hashtag=v"}

\* "?p1&p2&..." of a sequence of parameters
RECURSIVE QueryOf(_)
QueryOf(params) ==
    IF params = <<>> THEN <<>>
    ELSE IF Len(params) = 1 THEN <<"?", params[1]>>
    ELSE QueryOf(SubSeq(params, 1, Len(params) - 1))
         \o <<"&", params[Len(params)]>>

\* the upstream links: an address, a query, and possibly a fragment
UpstreamUrls(asin) ==
    {<<"https://www.amazon.co.jp/dp/", asin>> \o QueryOf(params) \o frag :
        params \in UNION {[1..n -> UpstreamParams] : n \in 0..MaxParams},
        frag \in {<<>>, <<"#", "fragment">>}}

InitUrl ==
    /\ env = [PA_API_KEY |-> TRUE, PA_API_SECRET |-> TRUE, PARTNER_TAG |-> TRUE]
    /\ configFile = ConfigOk(NoConfig)
    /\ resultsFile = FileOf("missing")
    /\ pc = "normalize"
    /\ runs = 1
    /\ netUsed = FALSE
    /\ configIO = FALSE
    /\ resultsIO = FALSE
    /\ FreshMain
    /\ discountedBefore = {}
    /\ fileAtStart = resultsFile
    /\ saveCalls = 0
    /\ HistIdle
    /\ GatewayIdle
    /\ twitter_ready = FALSE
    /\ threads_ready = FALSE
    /\ twitter_client = None
    /\ calls = <<>>
    /\ twitter_result = None
    /\ threads_result = None
    /\ PublishIdle
    /\ composeType = "discount"
    /\ composeProduct = None
    /\ post = None
    /\ urlAsin \in {"B000000001", "B000000002"}
    /\ urlItem \in {[DetailPageURL |-> None]}
                   \cup {[DetailPageURL |-> Some(u)] : u \in UpstreamUrls(urlAsin)}
    /\ detail_url = None

\* lines 350-357 for one item of the response
NormalizeUrl ==
    /\ pc = "normalize"
    /\ detail_url = None
    /\ detail_url' = Some(detail_url_of(urlAsin, urlItem, env.PARTNER_TAG))
    /\ UNCHANGED <<histVars, env, configFile, resultsFile, pc, runs, procVars, mainVars,
                   discountedBefore, fileAtStart, saveCalls, gwVars, postVars,
                   publishVars, composeVars, urlAsin, urlItem>>

NextUrl == NormalizeUrl

SpecUrl == InitUrl /\ [][NextUrl]_vars

(***************************************************************************)
(* Properties.                                                             *)
(***************************************************************************)
\* the run has classified: lines 930-990 are done
Classified == save_ok # None

InStream(p, stream) == \E k \in 1..Len(stream) : stream[k] = p

\* both prices are there and the reference price is above the current one
PriceDrop(p) ==
    /\ p.current_price # None
    /\ p.original_price # None
    /\ p.original_price[1] > p.current_price[1]

\* (original - current) / original * 100 >= t, without the division
DropAtLeast(p, t) ==
    (p.original_price[1] - p.current_price[1]) * 100 >= t * p.original_price[1]

PassesSellerFilter(p) == ~(args.amazon_only \/ config.amazon_only) \/ p.is_amazon

\* C1: over any sequence of detection runs, whatever the fetch, save and
\* publish outcomes, a product id is placed in the discount stream in at
\* most one run: no id of the stream of this run was in the stream of an
\* earlier run.
C1_DiscountedInAtMostOneRun ==
    \A k \in 1..Len(new_discounted_items) :
        new_discounted_items[k].asin \notin discountedBefore

\* C2: in every run, the discount stream contains no id of the previous
\* snapshot loaded at the start of the run.
C2_NoPreviousIdInDiscountStream ==
    \A k \in 1..Len(new_discounted_items) :
        \A m \in 1..Len(previous_results) :
            new_discounted_items[k].asin # previous_results[m].asin

\* C2, its case: a fetched record of an id of the previous snapshot passes
\* every other filter with another discount than the one recorded before,
\* while the stream holds another id.
C2_Witness ==
    /\ Classified
    /\ ~args.stock_only
    /\ new_discounted_items # <<>>
    /\ \E k \in 1..Len(product_info) : \E m \in 1..Len(previous_results) :
          /\ product_info[k].asin = previous_results[m].asin
          /\ PriceDrop(product_info[k])
          /\ DropAtLeast(product_info[k], min_discount)
          /\ PassesSellerFilter(product_info[k])
          /\ previous_results[m].discount_percent # None
          /\ previous_results[m].discount_percent
                # product_info[k].discount_percent

\* C3, as stated: a fetched record with referencePrice > currentPrice is in
\* the discount stream iff its discountPercent >= the threshold and its id
\* was not in the previous snapshot.
C3_AsStated ==
    Classified =>
        \A k \in 1..Len(product_info) :
            PriceDrop(product_info[k]) =>
                (InStream(product_info[k], new_discounted_items)
                 <=> /\ DropAtLeast(product_info[k], min_discount)
                     /\ \A m \in 1..Len(previous_results) :
                           previous_results[m].asin # product_info[k].asin)

\* C3, amended: a fetched record with referencePrice > currentPrice is in
\* the discount stream iff its discountPercent >= the threshold
\* (inclusive), its id was not in the previous snapshot, the seller filter
\* does not exclude it, and the run is not a stock-only run.
C3_DiscountStreamIff ==
    Classified =>
        \A k \in 1..Len(product_info) :
            PriceDrop(product_info[k]) =>
                (InStream(product_info[k], new_discounted_items)
                 <=> /\ DropAtLeast(product_info[k], min_discount)
                     /\ \A m \in 1..Len(previous_results) :
                           previous_results[m].asin # product_info[k].asin
                     /\ PassesSellerFilter(product_info[k])
                     /\ ~args.stock_only)

\* C3, its case: with the seller filter on, the stream holds a record whose
\* discount is exactly the threshold, and a record of another seller with a
\* larger discount was fetched.
C3_Witness ==
    /\ Classified
    /\ args.amazon_only
    /\ \E k \in 1..Len(new_discounted_items) :
          LET p == new_discounted_items[k]
          IN (p.original_price[1] - p.current_price[1]) * 100
                = min_discount * p.original_price[1]
    /\ \E k \in 1..Len(product_info) :
          /\ ~product_info[k].is_amazon
          /\ PriceDrop(product_info[k])
          /\ DropAtLeast(product_info[k], min_discount + 1)

\* C4, as stated: in every run a fetched record is in the restock stream
\* exactly when the seller filter does not exclude it, the previous stock
\* index has its id with inStock false, and it is in stock now; the stream
\* holds no id without an entry of the previous stock index.
C4_AsStated ==
    Classified =>
        /\ \A k \in 1..Len(product_info) :
              LET p == product_info[k]
              IN InStream(p, newly_in_stock)
                 <=> /\ PassesSellerFilter(p)
                     /\ p.asin \in DOMAIN stock_history
                     /\ ~stock_history[p.asin].is_in_stock
                     /\ p.is_in_stock
        /\ \A k \in 1..Len(newly_in_stock) :
              newly_in_stock[k].asin \in DOMAIN stock_history

\* C4, amended: the same, in every run that is not a discount-only run; a
\* discount-only run has an empty restock stream.  In every run the stream
\* holds no id without an entry of the previous stock index.
C4_RestockStreamIff ==
    Classified =>
        /\ \A k \in 1..Len(product_info) :
              LET p == product_info[k]
              IN InStream(p, newly_in_stock)
                 <=> /\ PassesSellerFilter(p)
                     /\ p.asin \in DOMAIN stock_history
                     /\ ~stock_history[p.asin].is_in_stock
                     /\ p.is_in_stock
                     /\ ~args.discount_only
        /\ \A k \in 1..Len(newly_in_stock) :
              /\ newly_in_stock[k].asin \in DOMAIN stock_history
              /\ \E m \in 1..Len(previous_results) :
                    /\ previous_results[m].asin = newly_in_stock[k].asin
                    /\ ~previous_results[m].is_in_stock

\* C4, its case: with the seller filter on, a restock is emitted while a
\* record that is in stock and new to the snapshot is not.
C4_Witness ==
    /\ Classified
    /\ args.amazon_only
    /\ newly_in_stock # <<>>
    /\ \E k \in 1..Len(product_info) :
          /\ product_info[k].is_in_stock
          /\ product_info[k].is_amazon
          /\ product_info[k].asin \notin DOMAIN stock_history

\* a record carries no discount fields, or the fields of its own prices
DiscountFieldsOk(p) ==
    IF p.discount_amount = None /\ p.discount_percent = None
    THEN TRUE
    ELSE /\ PriceDrop(p)
         /\ p.discount_amount = Some(p.original_price[1] - p.current_price[1])
         /\ p.discount_percent # None
         /\ p.discount_percent[1].den > 0
         /\ p.discount_percent[1].num * p.original_price[1]
               = (p.original_price[1] - p.current_price[1]) * 100
                    * p.discount_percent[1].den

NoDiscountFields(p) == p.discount_amount = None /\ p.discount_percent = None

\* C5: a record carries discount fields only if both prices are present and
\* referencePrice > currentPrice, and then discountAmount = referencePrice -
\* currentPrice and discountPercent = discountAmount / referencePrice * 100;
\* a record with a price absent or currentPrice >= referencePrice carries
\* none and is not in the discount stream.  This holds of the fetched
\* records, of the two streams and of the persisted records.
C5_DiscountFields ==
    /\ \A k \in 1..Len(product_info) :
          /\ DiscountFieldsOk(product_info[k])
          /\ ~PriceDrop(product_info[k]) =>
                /\ NoDiscountFields(product_info[k])
                /\ ~InStream(product_info[k], new_discounted_items)
    /\ \A k \in 1..Len(new_discounted_items) :
          /\ PriceDrop(new_discounted_items[k])
          /\ DiscountFieldsOk(new_discounted_items[k])
    /\ \A k \in 1..Len(newly_in_stock) : DiscountFieldsOk(newly_in_stock[k])
    /\ \A k \in 1..Len(resultsFile.data) : DiscountFieldsOk(resultsFile.data[k])

\* C5, its case: calculate_discount has run on a record with a price drop,
\* which got the fields, on one with equal prices and on one without a
\* reference price.
C5_Witness ==
    /\ Classified
    /\ ~args.stock_only
    /\ \E k \in 1..Len(product_info) :
          /\ product_info[k].discount_amount = Some(15)
          /\ product_info[k].discount_percent = Some([num |-> 1500, den |-> 100])
    /\ \E k \in 1..Len(product_info) :
          \/ /\ product_info[k].original_price # None
             /\ product_info[k].original_price = product_info[k].current_price
          \/ /\ product_info[k].original_price = None
             /\ product_info[k].current_price # None

\* the previous records whose id was not fetched
NotRefetched == {m \in 1..Len(previous_results) :
                    \A k \in 1..Len(product_info) :
                        product_info[k].asin # previous_results[m].asin}

\* the record previous_results[m] is in the saved snapshot, unless the write
\* failed or the cap cut the merged list
CarriedUnchanged(m) ==
    (save_ok = Some(TRUE)
     /\ Len(product_info) + Cardinality(NotRefetched) <= MAX_RESULTS_STORED)
    => InStream(previous_results[m], resultsFile.data)

InEvents(id) ==
    \/ \E k \in 1..Len(newly_in_stock) : newly_in_stock[k].asin = id
    \/ \E k \in 1..Len(new_discounted_items) : new_discounted_items[k].asin = id

\* C9, as stated: when a chunk's fetch fails the run still completes, the
\* ids of that chunk produce no restock and no discount event in this run,
\* and each of them that was in the previous snapshot is carried into the
\* new snapshot unchanged (subject to the retention cap).
C9_AsStated ==
    /\ failed_ids # {} => pc # "aborted"
    /\ Classified =>
        \A id \in failed_ids :
            /\ ~InEvents(id)
            /\ \A m \in 1..Len(previous_results) :
                  previous_results[m].asin = id => CarriedUnchanged(m)

\* What the code does keep of C9: a run ends before its classification only
\* when the normalization of a response raises; in a run that classifies,
\* the ids of a failed chunk that no chunk of the run returned produce no
\* restock and no discount event, and each of them that was in the previous
\* snapshot is carried unchanged into the snapshot the run writes (subject
\* to the retention cap and to the write succeeding).
C9_FailedChunkIsNoChange ==
    /\ pc = "aborted" => batchRaised
    /\ failed_ids # {} => pc \in {"fetch", "classify", "dispatch", "done", "aborted"}
    /\ Classified =>
          \A id \in failed_ids :
              (\A k \in 1..Len(product_info) : product_info[k].asin # id) =>
                  /\ ~InEvents(id)
                  /\ \A m \in 1..Len(previous_results) :
                        previous_results[m].asin = id => CarriedUnchanged(m)

\* The case of C9_FailedChunkIsNoChange: a run whose chunk failed is done, the write succeeded, and
\* an id of the failed chunk is in the written snapshot with the record of
\* the previous snapshot.
C9_FailedChunkCarried ==
    /\ pc = "done"
    /\ save_ok = Some(TRUE)
    /\ \E id \in failed_ids :
          /\ \A k \in 1..Len(product_info) : product_info[k].asin # id
          /\ \E m \in 1..Len(previous_results) :
                /\ previous_results[m].asin = id
                /\ InStream(previous_results[m], resultsFile.data)

\* C10: when a required catalog credential (key, secret or partner tag) is
\* absent, the process ends before it sends a request and before it reads
\* or writes the config file or the snapshot file.
C10_NoCredentialNoActivity ==
    (pc # "init" /\ ~(env.PA_API_KEY /\ env.PA_API_SECRET /\ env.PARTNER_TAG))
    => /\ pc = "exited"
       /\ ~netUsed
       /\ ~configIO
       /\ ~resultsIO
       /\ resultsFile.kind # "ok"

\* C10, its case: the process has exited for the lack of the partner tag
\* alone.
C10_Witness ==
    /\ pc = "exited"
    /\ env.PA_API_KEY
    /\ env.PA_API_SECRET
    /\ ~env.PARTNER_TAG

(***************************************************************************)
(* Properties of the gateway alone (SpecGateway).                          *)
(***************************************************************************)
IsRequest(e) == e.ev = "request"
IsSleep(e) == e.ev = "sleep"
Requests == SelectSeq(gwLog, IsRequest)
RequestKinds == [k \in 1..Len(Requests) |-> Requests[k].kind]
Waited == Sum([k \in 1..Len(SelectSeq(gwLog, IsSleep)) |->
                    SelectSeq(gwLog, IsSleep)[k].n])

\* C6: for one chunk the gateway sends at most 3 requests, whatever the
\* answers, and the call ends: a success ends it with data, the third
\* failed attempt ends it with no data.
C6_AtMostThreeRequests ==
    /\ Len(Requests) <= 3
    /\ gwResult = "running" =>
          /\ Len(Requests) < 3
          /\ \A k \in 1..Len(Requests) : Requests[k].kind # "ok"
    /\ gwResult = "data" =>
          /\ Requests[Len(Requests)].kind = "ok"
          /\ gwBatch # None
    /\ gwResult = "none" =>
          /\ Len(Requests) = 3
          /\ \A k \in 1..Len(Requests) : Requests[k].kind # "ok"
          /\ gwBatch = Some([raised |-> FALSE, result |-> <<>>])
    /\ \A k \in 1..Len(Requests) :
          Requests[k].kind = "ok" => (k = Len(Requests) /\ gwResult = "data")

\* C6, its case: three failed attempts of three kinds, a 429 the last.
C6_Witness ==
    /\ gwResult = "none"
    /\ RequestKinds = <<"transport", "malformed", "429">>

\* C7: get_product_info_batch never raises to its caller, also on a 200
\* response whose items lack nested fields or carry ill-typed ones.
C7_NeverRaises == gwBatch # None => ~gwBatch[1].raised

\* C8: after a 429 on attempt k (k from 0) the gateway sleeps
\* API_WAIT_TIME * 2^k before anything else; when attempt 1 gets 429 and
\* attempt 2 gets 200 the call ends with the data, the normalized records
\* are returned, and the time waited includes the backoff of attempt 1.
C8_ExponentialBackoff ==
    /\ \A k \in 1..Len(gwLog) :
          (gwLog[k].ev = "request" /\ gwLog[k].kind = "429") =>
              /\ k < Len(gwLog)
              /\ gwLog[k + 1].ev = "sleep"
              /\ gwLog[k + 1].n = API_WAIT_TIME * Pow2(gwLog[k].n)
    /\ RequestKinds = <<"429", "ok">> =>
          /\ gwResult = "data"
          /\ gwBatch # None
          /\ Waited >= API_WAIT_TIME
          /\ gwLog[2] = [ev |-> "sleep", kind |-> "", n |-> API_WAIT_TIME]

\* C8, its case: 429 then 200 with two items, both normalized.
C8_Witness ==
    /\ RequestKinds = <<"429", "ok">>
    /\ gwBatch # None
    /\ ~gwBatch[1].raised
    /\ Len(gwBatch[1].result) = 2

(***************************************************************************)
(* Properties of the snapshot store (Spec).                                *)
(***************************************************************************)
\* the process has called load_previous_results and not yet save_results
LoadedNotSaved == resultsIO /\ save_ok = None

PreviousNotFetched ==
    LET Stale(r) == \A k \in 1..Len(product_info) : product_info[k].asin # r.asin
    IN SelectSeq(previous_results, Stale)

FirstN(q, n) == [k \in 1..(IF Len(q) <= n THEN Len(q) ELSE n) |-> q[k]]

C13_AsStated ==
    /\ saveCalls <= 1
    /\ pc \in {"dispatch", "done"} => saveCalls = 1
    /\ saveCalls = 1 => i >= Len(config.tracking_asins) /\ Classified
    /\ saveCalls = 0 =>
          load_previous_results(resultsFile) = load_previous_results(fileAtStart)

\* C13, amended: a detection run calls save_results at most once, and only
\* after all fetching and classification; exactly once when the run has
\* tracked ids and reaches the end of the classification, not at all when
\* its tracking list is empty.  Before the save the snapshot the store
\* yields is the one of the start of the run, and the only change of the
\* file is load_previous_results putting the empty list in place of a
\* missing or malformed file.
C13_WrittenOnceAtEnd ==
    /\ saveCalls <= 1
    /\ pc \in {"dispatch", "done"} =>
          (saveCalls = 1 <=> config.tracking_asins # <<>>)
    /\ saveCalls = 1 =>
          /\ pc \in {"dispatch", "done"}
          /\ i >= Len(config.tracking_asins)
          /\ Classified
    /\ saveCalls = 0 =>
          /\ load_previous_results(resultsFile)
                = load_previous_results(fileAtStart)
          /\ \/ resultsFile = fileAtStart
             \/ /\ resultsIO
                /\ fileAtStart.kind \in {"missing", "malformed"}
                /\ resultsFile = [kind |-> "ok", data |-> <<>>]

\* C13, its case: a run of two chunks on a snapshot that held a record is
\* done and has written another snapshot with its one save.
C13_Witness ==
    /\ pc = "done"
    /\ saveCalls = 1
    /\ Len(config.tracking_asins) = 2
    /\ fileAtStart.kind = "ok"
    /\ fileAtStart.data # <<>>
    /\ resultsFile # fileAtStart

\* the merged list of the run is within the retention cap
WithinCap ==
    Len(product_info) + Len(PreviousNotFetched) <= MAX_RESULTS_STORED

\* C14: when the merged record count is within the cap, every id of the
\* snapshot before the run is in the snapshot after the run, and at every
\* point of the run before.
C14_Monotonic ==
    (save_ok = None \/ WithinCap) =>
        Keys(load_previous_results(fileAtStart))
            \subseteq Keys(load_previous_results(resultsFile))

\* What the code keeps of C14: the same when the write of the run did not
\* fail after it had opened the file.
C14_MonotonicWhenWritten ==
    ((save_ok = None \/ WithinCap) /\ resultsFile.kind # "malformed") =>
        Keys(load_previous_results(fileAtStart))
            \subseteq Keys(load_previous_results(resultsFile))

\* The case of C14_MonotonicWhenWritten: the id of the snapshot before the
\* run was not fetched and is in the snapshot the run wrote.
C14_Kept ==
    /\ save_ok = Some(TRUE)
    /\ WithinCap
    /\ product_info = <<>>
    /\ fileAtStart.data # <<>>
    /\ resultsFile.data = fileAtStart.data

(***************************************************************************)
(* Properties of the dispatcher alone (SpecDispatch).                      *)
(***************************************************************************)
IsPrefix(q, r) == Len(q) <= Len(r) /\ \A k \in 1..Len(q) : q[k] = r[k]

NotAuth(c) == c.fn # "get_me"

\* the calls of post_to_twitter and post_to_threads so far
PostCalls == SelectSeq(calls, NotAuth)

\* the percent of p is at least the percent of q
AtLeastAsDeep(p, q) ==
    p.discount_percent[1].num * q.discount_percent[1].den
        >= q.discount_percent[1].num * p.discount_percent[1].den

\* C15: of each stream at most 5 items are handed to the posting
\* functions, and they are the first 5 of the stream in its order; of the
\* discount stream these are the 5 with the highest discount_percent.
C15_FirstFiveOfEachStream ==
    /\ Len(dispatched.instock) <= 5
    /\ Len(dispatched.discount) <= 5
    /\ IsPrefix(dispatched.instock, newly_in_stock)
    /\ IsPrefix(dispatched.discount, new_discounted_items)
    /\ (pc = "done" /\ ~args.dry_run) =>
          /\ Len(dispatched.instock) = Min(5, Len(newly_in_stock))
          /\ Len(dispatched.discount) = Min(5, Len(new_discounted_items))
          /\ \A k \in 1..Len(dispatched.discount) :
                \A m \in (Len(dispatched.discount) + 1)..Len(new_discounted_items) :
                    AtLeastAsDeep(dispatched.discount[k], new_discounted_items[m])
    /\ \A k \in 1..Len(PostCalls) :
          \/ /\ PostCalls[k].notification_type = "instock"
             /\ PostCalls[k].asin \in Keys(dispatched.instock)
          \/ /\ PostCalls[k].notification_type = "discount"
             /\ PostCalls[k].asin \in Keys(dispatched.discount)

\* C15, its case: both streams hold 6 items, 5 of each have been posted,
\* and the discount item left out has a smaller percent than the first.
C15_Witness ==
    /\ pc = "done"
    /\ Len(newly_in_stock) = 6
    /\ Len(new_discounted_items) = 6
    /\ Len(dispatched.instock) = 5
    /\ Len(dispatched.discount) = 5
    /\ Len(PostCalls) = 20
    /\ ~AtLeastAsDeep(new_discounted_items[6], dispatched.discount[1])

\* main calls post_to_twitter (lines 1008, 1029)
TwitterOn == twitter_client # None /\ ~args.no_twitter

\* main calls post_to_threads (lines 1013, 1034)
ThreadsOn == threads_ready /\ ~args.no_threads

\* the calls the claim expects for the items of a stream
RECURSIVE ExpectedCalls(_, _)
ExpectedCalls(items, t) ==
    IF items = <<>> THEN <<>>
    ELSE (IF TwitterOn
          THEN <<[fn |-> "post_to_twitter", asin |-> Head(items).asin,
                  notification_type |-> t]>>
          ELSE <<>>)
         \o (IF ThreadsOn
             THEN <<[fn |-> "post_to_threads", asin |-> Head(items).asin,
                     notification_type |-> t]>>
             ELSE <<>>)
         \o ExpectedCalls(Tail(items), t)

\* C16: for every item selected for publication every enabled posting
\* function is called (Twitter is enabled when the client was set up and
\* --no-twitter is not given, Threads when its credentials are there and
\* --no-threads is not given), Twitter before Threads, the second whatever
\* the first returned; a failure on an item does not stop the dispatch of
\* the items after it: whatever the results, every selected item is reached.
C16_EveryCollaboratorInOrder ==
    /\ PostCalls = ExpectedCalls(dispatched.instock, "instock")
                      \o ExpectedCalls(dispatched.discount, "discount")
    /\ (pc = "done" /\ ~args.dry_run) =>
          /\ dispatched.instock = FirstToPost(newly_in_stock)
          /\ dispatched.discount = FirstToPost(new_discounted_items)
    /\ pc \in {"post_instock", "post_discount"} =>
          i < Len(FirstToPost(IF pc = "post_instock" THEN newly_in_stock
                              ELSE new_discounted_items))

\* C16, its case: both functions are enabled, both failed on the second
\* item of the discount stream after the restocked items, and the loop is
\* at the third item.
C16_Witness ==
    /\ pc = "post_discount"
    /\ i = 2
    /\ TwitterOn
    /\ ThreadsOn
    /\ twitter_result = Some(FALSE)
    /\ threads_result = Some(FALSE)
    /\ Len(dispatched.instock) = 5
    /\ Len(PostCalls) = 14

\* C17: in a dry run no request of any kind goes to a posting endpoint.
C17_DryRunSendsNothing == args.dry_run => calls = <<>>

\* What the code keeps of C17: a dry run calls neither post_to_twitter nor
\* post_to_threads and hands them no item.
C17_DryRunPostsNothing ==
    args.dry_run => (PostCalls = <<>> /\ dispatched = NoDispatch)

\* The case of C17_DryRunPostsNothing: a dry run with both streams filled
\* and both sets of credentials is done.
C17_DryRunDone ==
    /\ args.dry_run
    /\ pc = "done"
    /\ twitter_ready
    /\ threads_ready
    /\ ~args.no_twitter
    /\ ~args.no_threads
    /\ newly_in_stock # <<>>
    /\ new_discounted_items # <<>>

(***************************************************************************)
(* Properties of a publisher alone (SpecPublish).                          *)
(***************************************************************************)
\* the requests of the log that went to `to`
RequestsTo(to) ==
    LET Hit(e) == e.ev = "request" /\ e.to = to
    IN SelectSeq(pubLog, Hit)

IsAnswer(e) == e.ev = "answer"

\* the answers of the attempts so far
Answers == SelectSeq(pubLog, IsAnswer)

\* the answers that are a transport error or a status other than 200
TransportOrStatus ==
    {"tweepy_error", "upload_non200", "upload_transport", "publish_non200",
     "publish_transport"}

\* C18: a publish makes at most 3 attempts for an item, goes on to the
\* next attempt after a transport error and after a status other than 200
\* (unless it was the third), does not raise, and returns True or False
\* for every sequence of answers.
C18_ThreeAttemptsBoolean ==
    /\ pubResult \in {"start", "running", "True", "False"}
    /\ Len(Answers) <= 3
    /\ Len(RequestsTo("create_tweet")) <= 3
    /\ Len(RequestsTo("threads")) <= 3
    /\ Len(RequestsTo("threads_publish")) <= 3
    /\ \A k \in 1..Len(Answers) : Answers[k].attempt = k - 1
    /\ pubResult = "running" =>
          /\ Len(Answers) < 3
          /\ \A k \in 1..Len(Answers) : Answers[k].to # "ok"
    /\ pubResult = "True" =>
          \/ args.dry_run /\ Answers = <<>>
          \/ Answers # <<>> /\ Answers[Len(Answers)].to = "ok"
    /\ pubResult = "False" =>
          \/ Answers = <<>>
          \/ Len(Answers) = 3 /\ \A k \in 1..3 : Answers[k].to # "ok"
    /\ \A k \in 1..Len(pubLog) :
          (pubLog[k].ev = "answer" /\ pubLog[k].to \in TransportOrStatus
           /\ pubLog[k].attempt < 2) =>
              /\ k < Len(pubLog)
              /\ pubLog[k + 1].ev = "sleep"
              /\ k + 1 < Len(pubLog) =>
                    /\ pubLog[k + 2].ev = "request"
                    /\ pubLog[k + 2].attempt = pubLog[k].attempt + 1
              /\ k + 1 = Len(pubLog) => pubResult = "running"

\* C18, its case: post_to_threads got a transport error, then another
\* status than 200 on the publish request, then an answer without id, and
\* has returned False.
C18_Witness ==
    /\ pubFn = "threads"
    /\ pubResult = "False"
    /\ Len(Answers) = 3
    /\ Answers[1].to = "upload_transport"
    /\ Answers[2].to = "publish_non200"
    /\ Answers[3].to = "upload_no_id"

(***************************************************************************)
(* Properties of the composition alone (SpecCompose).                      *)
(***************************************************************************)
\* the length of the segment `name` of a text (0 when it has none)
SegLen(text, name) ==
    Sum([k \in 1..Len(text) |-> IF text[k].seg = name THEN text[k].len ELSE 0])

\* C19: the text post_to_twitter composes is never longer than 280
\* characters, for every kind of event and every length of title and URL.
C19_TweetWithinMaximum ==
    (post # None /\ pubFn = "twitter") => TextLen(post[1]) <= 280

\* What the code keeps of C19: when the first composition of
\* post_to_twitter is over 280 characters, the title and nothing else is
\* cut, to its first 50 characters, and the text is within 280 whenever
\* its other segments leave room for them; post_to_threads shows the whole
\* title whatever its length.
C19_TitleIsWhatIsCut ==
    post # None =>
        LET p == composeProduct[1]
            first == ComposeTwitter(p, composeType)
        IN IF pubFn = "threads"
           THEN SegLen(post[1], "title") = p.title
           ELSE /\ Len(post[1]) = Len(first)
                /\ \A k \in 1..Len(first) :
                      first[k].seg # "title" => post[1][k] = first[k]
                /\ SegLen(post[1], "title") =
                      IF TextLen(first) > 280
                      THEN (IF p.title <= 50 THEN p.title ELSE 50)
                      ELSE (IF p.title <= 80 THEN p.title ELSE 80)
                /\ TextLen(first) - SegLen(first, "title") + 50 <= 280
                      => TextLen(post[1]) <= 280

\* The case of C19_TitleIsWhatIsCut: a first composition over 280
\* characters was cut to 280 or less.
C19_TitleCut ==
    /\ post # None
    /\ pubFn = "twitter"
    /\ TextLen(ComposeTwitter(composeProduct[1], composeType)) > 280
    /\ TextLen(post[1]) <= 280
    /\ SegLen(post[1], "title") = 50

(***************************************************************************)
(* Properties of the detail link alone (SpecUrl).                          *)
(***************************************************************************)
\* where the query of a URL ends: before its first "#", or at its end
QueryEnd(url) ==
    IF \E k \in 1..Len(url) : url[k] = "#"
    THEN (CHOOSE k \in 1..Len(url) :
             url[k] = "#" /\ \A m \in 1..(k - 1) : url[m] # "#") - 1
    ELSE Len(url)

\* the tag= query parameters of a URL: the parts "tag=..." that stand
\* after a "?" or "&" of its query
TagParams(url) ==
    {k \in 2..QueryEnd(url) :
        /\ StartsWithTag(url[k])
        /\ url[k - 1] \in {"?", "&"}
        /\ \E m \in 1..(k - 1) : url[m] = "?"}

HasFragment(url) == \E k \in 1..Len(url) : url[k] = "#"

\* C20: every detail link made by the normalization has exactly one tag=
\* query parameter, whether synthesized or taken from the upstream link,
\* whatever that link already carries.
C20_ExactlyOneTag ==
    detail_url # None => Cardinality(TagParams(detail_url[1])) = 1

\* What the code keeps of C20: the synthesized link has exactly one tag=
\* parameter; an upstream link that has one is left as it is; one that has
\* none and no fragment gets exactly one, after "&" when it has a query
\* and after "?" when it has none.
C20_OneTagOnPlainLinks ==
    detail_url # None =>
        IF urlItem.DetailPageURL = None
        THEN /\ Cardinality(TagParams(detail_url[1])) = 1
             /\ detail_url[1][2] = urlAsin
        ELSE LET url == urlItem.DetailPageURL[1]
             IN /\ TagParams(url) # {} => detail_url[1] = url
                /\ (TagParams(url) = {} /\ ~HasFragment(url)) =>
                      /\ Cardinality(TagParams(detail_url[1])) = 1
                      /\ detail_url[1] =
                            url \o <<IF HasQuestionMark(url) THEN "&" ELSE "?",
                                     "tag=PARTNER_TAG">>

\* The case of C20_OneTagOnPlainLinks: an upstream link with a query and
\* no tag got the tag appended after "&".
C20_TagAppended ==
    /\ detail_url # None
    /\ urlItem.DetailPageURL # None
    /\ TagParams(urlItem.DetailPageURL[1]) = {}
    /\ HasQuestionMark(urlItem.DetailPageURL[1])
    /\ ~HasFragment(urlItem.DetailPageURL[1])
    /\ Cardinality(TagParams(detail_url[1])) = 1
    /\ detail_url[1][Len(detail_url[1]) - 1] = "&"

(***************************************************************************)
(* Properties of the config alone (SpecConfig).                            *)
(***************************************************************************)
\* a detection run has loaded its config
ConfigLoaded == configIO /\ ~IsAdd(args)

\* C21: when the config file is absent, empty or unparsable, the load
\* returns the default config with the built-in sample ids and the default
\* thresholds, and the file holds that config at once.
C21_SampleDefaultPersisted ==
    (ConfigLoaded /\ configAtStart.kind # "ok") =>
        /\ config = [min_discount_percent |-> Some(15), amazon_only |-> FALSE,
                     tracking_asins |-> SAMPLE_ASINS]
        /\ configFile = ConfigOk(config)

\* What the code keeps of C21: the default thresholds are returned and
\* written at once for every unusable file, with the sample ids when the
\* file is absent and with no id when it is empty or unparsable; a file
\* that holds a config is returned as it is and not written.
C21_DefaultPersisted ==
    ConfigLoaded =>
        IF configAtStart.kind = "ok"
        THEN config = configAtStart.data /\ configFile = configAtStart
        ELSE /\ config.min_discount_percent = Some(15)
             /\ ~config.amazon_only
             /\ config.tracking_asins =
                   IF configAtStart.kind = "missing" THEN SAMPLE_ASINS ELSE <<>>
             /\ configFile = ConfigOk(config)

\* The case of C21_DefaultPersisted: an absent file was replaced by the
\* default with the sample ids, and the run goes on to fetch them.
C21_MissingLoaded ==
    /\ ConfigLoaded
    /\ configAtStart.kind = "missing"
    /\ configFile.kind = "ok"
    /\ Len(configFile.data.tracking_asins) = 5
    /\ pc = "fetch"

\* the ids an addition is given, in the order of lines 852-875
SuppliedIds ==
    (IF args.add # None /\ args.add[1] # <<"">>
     THEN SelectSeq([k \in 1..Len(args.add[1]) |-> Strip(args.add[1][k])],
                    LAMBDA t : t # "")
     ELSE <<>>)
    \o (IF args.add_file # None /\ args.add_file[1].exists
        THEN SelectSeq([k \in 1..Len(args.add_file[1].lines) |->
                           Strip(args.add_file[1].lines[k])],
                       LAMBDA t : t # "" /\ t # "# c")
        ELSE <<>>)

\* the ids tracked before the addition
TrackedBefore == load_asin_list(configAtStart).tracking_asins

\* C22: the addition appends to the tracked ids exactly the supplied ids
\* that were not tracked, each once and in the order supplied, after the
\* ids tracked before; it writes the config when it added an id; it sends
\* no request, classifies and posts nothing, and leaves the results file
\* alone.
C22_AppendsUntrackedOnce ==
    (pc = "done" /\ IsAdd(args)) =>
        /\ config.tracking_asins =
              TrackedBefore
              \o Distinct(SelectSeq(SuppliedIds,
                                    LAMBDA t : t \notin Range(TrackedBefore)))
        /\ config.min_discount_percent
              = load_asin_list(configAtStart).min_discount_percent
        /\ Len(config.tracking_asins) > Len(TrackedBefore)
              => configFile = ConfigOk(config)
        /\ (Len(config.tracking_asins) = Len(TrackedBefore)
              /\ configAtStart.kind = "ok") => configFile = configAtStart
        /\ ~netUsed /\ ~resultsIO /\ resultsFile = fileAtStart
        /\ product_info = <<>> /\ save_ok = None /\ saveCalls = 0
        /\ newly_in_stock = <<>> /\ new_discounted_items = <<>>
        /\ dispatched = NoDispatch /\ calls = <<>>

\* An addition that was given a new id twice and a tracked id, and added
\* the new one once after the tracked ones.
C22_Witness ==
    /\ pc = "done"
    /\ IsAdd(args)
    /\ TrackedBefore = <<"a", "b">>
    /\ \E j, k \in 1..Len(SuppliedIds) :
          j < k /\ SuppliedIds[j] = "c" /\ SuppliedIds[k] = "c"
    /\ "a" \in Range(SuppliedIds)
    /\ config.tracking_asins = <<"a", "b", "c">>
    /\ configFile = ConfigOk(config)

\* C28: whenever --min-discount is given, for every value of it, 0
\* included, the threshold of the run is that value.
C28_OverrideWins ==
    (ConfigLoaded /\ args.min_discount # None) =>
        min_discount = args.min_discount[1]

\* What the code keeps of C28: a --min-discount other than 0 is the
\* threshold; without one, and with 0, the threshold is the value of the
\* config, and the built-in default when the config has none.
C28_ThresholdChoice ==
    ConfigLoaded =>
        min_discount =
            IF args.min_discount \notin {None, Some(0)}
            THEN args.min_discount[1]
            ELSE IF config.min_discount_percent # None
            THEN config.min_discount_percent[1]
            ELSE 15

\* The case of C28_ThresholdChoice: a --min-discount of 30 over a config
\* that says 50.
C28_OverrideUsed ==
    /\ ConfigLoaded
    /\ args.min_discount = Some(30)
    /\ config.min_discount_percent = Some(50)
    /\ min_discount = 30

(***************************************************************************)
(* Properties of the streams and the snapshot of a run (Spec).             *)
(***************************************************************************)
\* where the record of an id stands in product_info
PosIn(info, id) == CHOOSE k \in 1..Len(info) : info[k].asin = id

SamePercent(x, y) == x.num * y.den = y.num * x.den

\* C23: the discount stream is in descending order of discount_percent,
\* and items of equal discount_percent stand in the order product_info
\* has them.
C23_SortedStable ==
    save_ok # None =>
        \A j, k \in 1..Len(new_discounted_items) :
            j < k =>
                LET x == new_discounted_items[j]
                    y == new_discounted_items[k]
                IN /\ ~PercentGt(y.discount_percent[1], x.discount_percent[1])
                   /\ SamePercent(x.discount_percent[1], y.discount_percent[1])
                         => PosIn(product_info, x.asin)
                               < PosIn(product_info, y.asin)

\* A discount stream of two items of equal discount_percent.
C23_Witness ==
    /\ save_ok # None
    /\ Len(new_discounted_items) = 2
    /\ SamePercent(new_discounted_items[1].discount_percent[1],
                   new_discounted_items[2].discount_percent[1])
    /\ new_discounted_items[1].asin # new_discounted_items[2].asin

\* the snapshot this run has written
SnapshotWritten == save_ok = Some(TRUE) /\ resultsFile.kind = "ok"

\* C24: every record of the written snapshot has posted true if and only
\* if its id was in a snapshot an earlier run left, the records carried
\* over without a fetch included.
C24_PostedIffSeenBefore ==
    SnapshotWritten =>
        \A k \in 1..Len(resultsFile.data) :
            resultsFile.data[k].posted
                = Some(resultsFile.data[k].asin \in savedIds)

\* What the code keeps of C24: a record fetched in this run has posted
\* true if and only if its id was in the snapshot the run found; a record
\* carried over is written as the run found it.
C24_FetchedPostedIffPrevious ==
    SnapshotWritten =>
        LET found == load_previous_results(fileAtStart)
        IN \A k \in 1..Len(resultsFile.data) :
              LET rec == resultsFile.data[k]
              IN IF rec.asin \in Keys(product_info)
                 THEN rec.posted = Some(rec.asin \in Keys(found))
                 ELSE rec \in Range(found)

\* The case of C24_FetchedPostedIffPrevious: a record fetched again is
\* written with posted true.
C24_Refetched ==
    /\ SnapshotWritten
    /\ \E k \in 1..Len(resultsFile.data) :
          /\ resultsFile.data[k].asin \in Keys(product_info)
          /\ resultsFile.data[k].posted = Some(TRUE)

\* what the dispatch posts of the streams of the run
ToPost ==
    [instock |-> FirstToPost(newly_in_stock),
     discount |-> FirstToPost(new_discounted_items)]

\* C25 as stated: when the snapshot of a run is written, the events of
\* the run have been published.
C25_AsStated ==
    saveCalls > 0 => dispatched = ToPost

\* C25, amended: within a run the order is fetch, classify, write the
\* snapshot, publish; the snapshot is written once, before the dispatch
\* posts the events of the run, and the dispatch writes nothing.
C25_SavedBeforeDispatch ==
    /\ pc = "fetch" =>
          /\ saveCalls = 0
          /\ newly_in_stock = <<>> /\ new_discounted_items = <<>>
    /\ pc = "dispatch" =>
          /\ saveCalls = 1 /\ save_ok # None
          /\ dispatched = NoDispatch
          /\ ToPost # NoDispatch
    /\ dispatched # NoDispatch =>
          /\ pc = "done"
          /\ saveCalls = 1 /\ save_ok # None
          /\ dispatched = ToPost

\* A run that has posted its events after it wrote its snapshot.
C25_Witness ==
    /\ pc = "done"
    /\ dispatched # NoDispatch
    /\ saveCalls = 1
    /\ save_ok = Some(TRUE)
    /\ resultsFile.kind = "ok"
    /\ netUsed

\* C26: a failed write of the snapshot does not end the run: save_results
\* returns False and the run dispatches the streams it classified, as
\* after a write that succeeded; a fault of the fetch is caught at the top
\* of main and the run ends there.
C26_SaveFailureGoesOn ==
    /\ save_ok # None =>
          /\ pc \in {"dispatch", "done"}
          /\ newly_in_stock =
                newly_in_stock_of(product_info, stock_history, args, config)
          /\ new_discounted_items =
                new_discounted_items_of(product_info, previous_asins,
                                        min_discount, args, config)
          /\ pc = "dispatch" <=> (ToPost # NoDispatch /\ dispatched = NoDispatch)
          /\ pc = "done" => dispatched = ToPost
          /\ save_ok = Some(FALSE) => resultsFile.kind # "ok"
                                      \/ resultsFile = FileAfterLoad(fileAtStart)
    /\ batchRaised => pc = "aborted" /\ save_ok = None /\ dispatched = NoDispatch
    /\ pc = "aborted" => batchRaised

\* A run whose write failed and that posted its discount stream.
C26_Witness ==
    /\ save_ok = Some(FALSE)
    /\ pc = "done"
    /\ dispatched.discount # <<>>
    /\ dispatched = ToPost

(***************************************************************************)
(* Properties of the two steps of post_to_threads (SpecPublish).           *)
(***************************************************************************)
\* the answers that say the publish request of an attempt was sent
PublishSent == {"ok", "publish_non200", "publish_transport"}

IsPublishRequest(e) == e.ev = "request" /\ e.to = "threads_publish"

\* C27: outside a dry run post_to_threads returns True only at the end of
\* an attempt whose container request and whose publish request both got
\* 200; a publish request follows the container request of its own
\* attempt and is sent in no attempt whose container request failed;
\* after a failed publish request the next request is the container
\* request of the next attempt.
C27_TwoStepSuccess ==
    pubFn = "threads" =>
        /\ (pubResult = "True" /\ ~args.dry_run) =>
              /\ Len(pubLog) >= 3
              /\ LET n == pubLog[Len(pubLog)].attempt
                 IN /\ pubLog[Len(pubLog)] = PubAnswer(n, "ok")
                    /\ pubLog[Len(pubLog) - 1] = PubRequest(n, "threads_publish")
                    /\ pubLog[Len(pubLog) - 2] = PubRequest(n, "threads")
        /\ \A k \in 1..Len(pubLog) :
              /\ IsPublishRequest(pubLog[k]) =>
                    /\ k > 1 /\ k < Len(pubLog)
                    /\ pubLog[k - 1] = PubRequest(pubLog[k].attempt, "threads")
                    /\ pubLog[k + 1].ev = "answer"
                    /\ pubLog[k + 1].attempt = pubLog[k].attempt
                    /\ pubLog[k + 1].to \in PublishSent
              /\ (pubLog[k].ev = "answer" /\ pubLog[k].to \notin PublishSent) =>
                    \A m \in 1..Len(pubLog) :
                        IsPublishRequest(pubLog[m])
                            => pubLog[m].attempt # pubLog[k].attempt
              /\ (pubLog[k].ev = "answer"
                    /\ pubLog[k].to \in {"publish_non200", "publish_transport"}) =>
                    \A m \in (k + 1)..Len(pubLog) :
                        (pubLog[m].ev = "request"
                           /\ \A j \in (k + 1)..(m - 1) : pubLog[j].ev # "request")
                        => pubLog[m] = PubRequest(pubLog[k].attempt + 1, "threads")

\* A call that returned True in its second attempt, which began with a
\* container request of its own after the publish request of the first
\* attempt had failed.
C27_Witness ==
    /\ pubFn = "threads"
    /\ pubResult = "True"
    /\ \E k \in 1..Len(pubLog) : pubLog[k] = PubAnswer(0, "publish_non200")
    /\ \E k \in 1..Len(pubLog) : pubLog[k] = PubRequest(1, "threads")
    /\ pubLog[Len(pubLog)] = PubAnswer(1, "ok")

(***************************************************************************)
(* Properties of the restock stream across runs (SpecSeeded) and of the    *)
(* two streams of one run (Spec).                                          *)
(***************************************************************************)
\* C29: while every snapshot write succeeds, an id that a run put in its
\* restock stream is in the restock stream of no later run, unless a run
\* in between fetched it as not in stock.
C29_RestockOncePerTransition ==
    save_ok # None => Keys(newly_in_stock) \cap restockedSince = {}

\* A second run that fetched in stock an id the first run had reported as
\* restocked, and did not report it again.
C29_Witness ==
    /\ runs = 2
    /\ save_ok # None
    /\ "a" \in restockedSince
    /\ \E k \in 1..Len(product_info) :
          product_info[k].asin = "a" /\ product_info[k].is_in_stock
    /\ "a" \notin Keys(newly_in_stock)

\* C30: in every run the restock stream and the discount stream have no id
\* in common: the ids of the first are in the previous stock index, those
\* of the second are not in the id set of the previous snapshot, and the
\* two are built from the same snapshot; no id is posted twice in a run.
C30_StreamsDisjoint ==
    /\ Keys(newly_in_stock) \cap Keys(new_discounted_items) = {}
    /\ Keys(newly_in_stock) \subseteq DOMAIN stock_history
    /\ Keys(new_discounted_items) \cap previous_asins = {}
    /\ DOMAIN stock_history = previous_asins
    /\ Keys(dispatched.instock) \cap Keys(dispatched.discount) = {}

\* A run that reported one id as restocked and another as discounted.
C30_Witness ==
    /\ newly_in_stock # <<>>
    /\ new_discounted_items # <<>>
    /\ pc = "done"
    /\ dispatched.instock # <<>>
    /\ dispatched.discount # <<>>

\* no id stands twice in a list of records
NoDuplicateIds(q) ==
    \A j, k \in 1..Len(q) : j # k => q[j].asin # q[k].asin

\* C32: from an absent, empty or unreadable snapshot, after any sequence
\* of runs, no id stands twice in the snapshot file, in the list loaded
\* from it, in product_info, or in the list handed to save_results, also
\* when the tracking list holds an id twice and the id is fetched in
\* several chunks.
C32_IdsOnce ==
    /\ resultsFile.kind = "ok" => NoDuplicateIds(resultsFile.data)
    /\ NoDuplicateIds(previous_results)
    /\ NoDuplicateIds(product_info)
    /\ save_ok # None =>
          NoDuplicateIds(all_products_of(product_info, previous_results))

\* A second run over the tracking list ["a", "a"] that found "a" in the
\* snapshot, fetched it in both chunks and wrote it once.
C32_Witness ==
    /\ runs = 2
    /\ config.tracking_asins = <<"a", "a">>
    /\ i = 2
    /\ failed_ids = {}
    /\ Keys(previous_results) = {"a"}
    /\ Keys(product_info) = {"a"}
    /\ save_ok = Some(TRUE)
    /\ resultsFile.kind = "ok"
    /\ Len(resultsFile.data) = 1
    /\ resultsFile.data[1].asin = "a"

\* the command line a with posting fully on: no --dry-run, no --no-twitter,
\* no --no-threads
PostingOn(a) ==
    [a EXCEPT !.dry_run = FALSE, !.no_twitter = FALSE, !.no_threads = FALSE]

\* the snapshot a run with posting fully on writes from what the catalog
\* answered (info) and the previous snapshot
ReferenceSnapshot(info, a, previous) ==
    FileOk(Truncate(all_products_of(InfoAfter(info, PostingOn(a),
                                              Keys(previous)),
                                    previous)))

\* C31: the snapshot file of a run is, from its write to its end, the one a
\* run with posting fully on writes from the same previous snapshot and the
\* same catalog answers, whatever --dry-run, --no-twitter, --no-threads,
\* the posting credentials, the Twitter client set-up and the answers of
\* the posting endpoints are; before the write and after a failed write it
\* is settled by the previous file and the file system alone.
C31_SnapshotIgnoresPosting ==
    /\ save_ok = Some(TRUE) =>
          resultsFile = ReferenceSnapshot(product_info, args,
                                          load_previous_results(fileAtStart))
    /\ save_ok = Some(FALSE) =>
          resultsFile \in {FileAfterLoad(fileAtStart), FileOf("malformed")}
    /\ save_ok = None =>
          resultsFile \in {fileAtStart, FileAfterLoad(fileAtStart)}

\* A dry run has ended: it detected a new discounted item, posted nothing,
\* and its snapshot holds the item, which the next run will find among the
\* previous ids.
C31_Witness ==
    /\ pc = "done"
    /\ args.dry_run
    /\ save_ok = Some(TRUE)
    /\ new_discounted_items # <<>>
    /\ dispatched = NoDispatch
    /\ resultsFile.kind = "ok"
    /\ \E k \in 1..Len(resultsFile.data) :
          resultsFile.data[k].asin = new_discounted_items[1].asin
    /\ new_discounted_items[1].asin
          \in Keys(load_previous_results(resultsFile))
=============================================================================
